---- MODULE Spec2Model ----
(***************************************************************************)
(* A model of the large-area raster acquisition of the urban health data   *)
(* agent (agents/data_agent.py): download_geotiff_from_ee, its escalation  *)
(* to _download_large_area_as_numpy and _download_tiled (specifications    *)
(* Spec and SpecOrder), and the job orchestration of process_city_data     *)
(* with the dataset getters it calls (specification SpecJob).              *)
(*                                                                         *)
(* Geographic coordinates are exact: a coordinate is an integer number of  *)
(* 1/DegDen degrees, and a value computed from coordinates is an exact     *)
(* mixed fraction <<whole, num, den>> (whole + num/den, 0 <= num < den, in *)
(* lowest terms).  The code computes the same expressions in binary        *)
(* floating point; rounding in the last bit is not modelled.               *)
(***************************************************************************)
EXTENDS Integers, Sequences, FiniteSets, TLC

\* Resolution of the coordinate lattice: units per degree.
DegDen == 10000

\* data_agent.py:115, 184: metres per degree of the flat approximation.
METERS_PER_DEGREE == 111320
\* data_agent.py:120: SAMPLE_LIMIT.
SAMPLE_LIMIT == 250000
\* data_agent.py:192: tile_dim.
tile_dim == 450
\* data_agent.py:231: for attempt in range(3).
MAX_ATTEMPTS == 3

---------------------------------------------------------------------------
(* Arithmetic helpers. *)

Min(a, b) == IF a < b THEN a ELSE b
Max(a, b) == IF a > b THEN a ELSE b

RECURSIVE Gcd(_, _)
Gcd(a, b) == IF b = 0 THEN a ELSE Gcd(b, a % b)

\* Python int(n / d) for d > 0: truncation toward zero.
IntTrunc(n, d) == IF n >= 0 THEN n \div d ELSE -((-n) \div d)

\* math.ceil(a / b) for b > 0.
ceil(a, b) == -((-a) \div b)

\* The exact value n / d (d > 0) as a mixed fraction in lowest terms.
Frac(n, d) ==
    LET q == n \div d
        r == n - q * d
        g == Gcd(d, r)
    IN  <<q, r \div g, d \div g>>

\* base + f for an integer base and a mixed fraction f.
GeoPlus(base, f) == <<base + f[1], f[2], f[3]>>

\* a <= b and a < b on mixed fractions.
GeoLeq(a, b) == a[1] < b[1] \/ (a[1] = b[1] /\ a[2] * b[3] <= b[2] * a[3])
GeoLess(a, b) == a[1] < b[1] \/ (a[1] = b[1] /\ a[2] * b[3] < b[2] * a[3])

---------------------------------------------------------------------------
(* State. *)

VARIABLES
    region,       \* the rectangle handed to download_geotiff_from_ee
    scale,        \* its scale argument (metres per pixel)
    pc,           \* position in the download call chain
    trail,        \* strategies entered so far, in order
    tiled_by,     \* why _download_tiled was entered
    result,       \* value returned by download_geotiff_from_ee
    file,         \* the raster at filename
    full_width,   \* locals of _download_tiled
    full_height,
    n_tiles_x,
    n_tiles_y,
    full_data,
    completed,
    i,
    j,
    attempt,
    tile_answer,         \* what the remote service answered to the latest tile fetch
    job_pc,              \* position in process_city_data
    bbox,                \* locals of process_city_data
    data_types,
    pos,                 \* index in data_types of the loop's data_type
    outputs,
    dataset_info,
    validation_results,
    manifest,            \* the value process_city_data returns
    disk,                \* the files under outputs/
    getter_log,          \* what each getter call returned, in call order
    stages,              \* the steps the latest getter call ran, with their outcomes
    year,                \* the year argument of process_city_data
    direct_answer,       \* what the remote service answered to the direct download
    client,              \* the HTTP client waiting for the job's response
    job_id,              \* the job process_city_data is running
    recorded,            \* raster paths in the manifests of earlier jobs
    raster,              \* the file handed to validate_raster
    expected_crs,        \* its expected_crs argument
    validation_result,   \* what validate_raster returned
    reprojected          \* what reproject_raster did with the file

jobVars == <<job_pc, bbox, data_types, pos, outputs, dataset_info,
             validation_results, manifest, disk, getter_log, stages, year>>

vars == <<region, scale, pc, trail, tiled_by, result, file, full_width,
          full_height, n_tiles_x, n_tiles_y, full_data, completed, i, j,
          attempt, tile_answer, jobVars, direct_answer, client, job_id, recorded, raster,
          expected_crs, validation_result, reprojected>>

otherVars ==
    <<client, job_id, recorded, raster, expected_crs, validation_result,
      reprojected>>

\* data_agent.py:614: year: int = 2020.
DefaultYear == 2020

\* The empty dict, and None where a dict is expected.
EmptyDict == [d \in {} |-> "None"]
None == [is_none |-> TRUE]

\* One job, its client waiting, and no call of validate_raster followed.
NoOther ==
    /\ client = "waiting"
    /\ job_id = "job_1"
    /\ recorded = {}
    /\ raster = None
    /\ expected_crs = "None"
    /\ validation_result = None
    /\ reprojected = None

\* No job is running: download_geotiff_from_ee is followed on its own.
NoJob ==
    /\ job_pc = "idle"
    /\ bbox = None
    /\ data_types = <<>>
    /\ pos = 0
    /\ outputs = EmptyDict
    /\ dataset_info = EmptyDict
    /\ validation_results = EmptyDict
    /\ manifest = None
    /\ disk = {}
    /\ getter_log = <<>>
    /\ stages = <<>>
    /\ year = DefaultYear

tiledLocals == <<full_width, full_height, n_tiles_x, n_tiles_y, full_data,
                 completed, i, j, attempt, tile_answer>>

NoFile == [via |-> "none"]

---------------------------------------------------------------------------
(* Pure computations of the download functions. *)

\* region.bounds().getInfo()['coordinates'][0] reduced by min()/max():
\* data_agent.py:108-112 and 177-181.
Bounds(rg) ==
    [min_lon |-> Min(rg.x1, rg.x2), max_lon |-> Max(rg.x1, rg.x2),
     min_lat |-> Min(rg.y1, rg.y2), max_lat |-> Max(rg.y1, rg.y2)]

min_lon == Bounds(region).min_lon
max_lon == Bounds(region).max_lon
min_lat == Bounds(region).min_lat
max_lat == Bounds(region).max_lat

\* int((hi - lo) * 111320 / scale), data_agent.py:115-116 and 184-185.
PixelDim(lo, hi, sc) == IntTrunc((hi - lo) * METERS_PER_DEGREE, DegDen * sc)

\* data_agent.py:115-117: width, height, total_pixels.
width == PixelDim(min_lon, max_lon, scale)
height == PixelDim(min_lat, max_lat, scale)
total_pixels == width * height

\* Mutant of ExceedsSampleLimit: the limit itself already tiles.
ExceedsSampleLimit_inclusive(n) == n >= SAMPLE_LIMIT

\* Mutant of ExceedsSampleLimit: the ceiling is max_pixels (1e8) instead of
\* SAMPLE_LIMIT.
ExceedsSampleLimit_max_pixels(n) == n > 100000000

\* data_agent.py:122: if total_pixels > SAMPLE_LIMIT.
ExceedsSampleLimit(n) == n > SAMPLE_LIMIT

\* Mutant of NTiles: one more than the count rounded down.
NTiles_floor_plus_one(full) == full \div tile_dim + 1

\* Mutant of NTiles: the tile count rounded down.
NTiles_floor(full) == full \div tile_dim

\* data_agent.py:193-194: ceil(full / tile_dim).
NTiles(full) == ceil(full, tile_dim)

\* data_agent.py:195: total_tiles.
total_tiles == n_tiles_x * n_tiles_y

\* Mutant of x_start: neighbouring tile columns share one pixel column.
x_start_overlapping(tj) == tj * (tile_dim - 1)

\* Mutant of x_start: the column offset is one pixel late.
x_start_late(tj) == tj * tile_dim + 1

\* data_agent.py:210-213: tile bounds in pixels of tile row ti, column tj.
y_start(ti) == ti * tile_dim
y_end(ti) == Min((ti + 1) * tile_dim, full_height)
x_start(tj) == tj * tile_dim
x_end(tj) == Min((tj + 1) * tile_dim, full_width)

\* data_agent.py:216-217: actual tile dimensions.
tile_height(ti) == y_end(ti) - y_start(ti)
tile_width(tj) == x_end(tj) - x_start(tj)

\* Mutant of tile_max_lon: the east edge taken a full tile_dim after the
\* west edge, also for the narrower last tile.
tile_max_lon_unclamped(tj) ==
    GeoPlus(min_lon, Frac((max_lon - min_lon) * (x_start(tj) + tile_dim), full_width))

\* data_agent.py:220-223: tile bounds in degrees,
\* min + (max - min) * (pixel offset / full size).
tile_min_lon(tj) == GeoPlus(min_lon, Frac((max_lon - min_lon) * x_start(tj), full_width))
tile_max_lon(tj) == GeoPlus(min_lon, Frac((max_lon - min_lon) * x_end(tj), full_width))
tile_min_lat(ti) == GeoPlus(min_lat, Frac((max_lat - min_lat) * y_start(ti), full_height))
tile_max_lat(ti) == GeoPlus(min_lat, Frac((max_lat - min_lat) * y_end(ti), full_height))

\* data_agent.py:225-228: the rectangle requested for tile (ti, tj).
tile_region(ti, tj) ==
    [min_lon |-> tile_min_lon(tj), min_lat |-> tile_min_lat(ti),
     max_lon |-> tile_max_lon(tj), max_lat |-> tile_max_lat(ti)]

\* rasterio.transform.from_bounds(west, south, east, north, width, height)
\* as called at data_agent.py:133-134 and 261-262: the affine transform
\* translation(west, north) * scale((east - west) / width, (south - north) / height).
from_bounds(west, south, east, north, w, h) ==
    [c |-> west, f |-> north, a_num |-> east - west, e_num |-> south - north,
     width |-> w, height |-> h]

\* The transform applied to a pixel corner: the longitude of column col
\* and the latitude of row row.
TransformLon(t, col) == GeoPlus(t.c, Frac(t.a_num * col, t.width))
TransformLat(t, row) == GeoPlus(t.f, Frac(t.e_num * row, t.height))

\* The geographic rectangle the transform assigns to the pixel window
\* rows [y0, y1) x columns [x0, x1).
WindowRegion(t, y0, y1, x0, x1) ==
    [min_lon |-> TransformLon(t, x0), min_lat |-> TransformLat(t, y1),
     max_lon |-> TransformLon(t, x1), max_lat |-> TransformLat(t, y0)]

\* The array the remote service returns for a tile holds one value
\* throughout, which identifies the tile that was requested; src is the
\* rectangle the array depicts, the one that was requested.
TileValue(ti, tj) == 1 + ti * n_tiles_x + tj

TileData(ti, tj, shape) ==
    [shape |-> shape, fill |-> TileValue(ti, tj), src |-> tile_region(ti, tj)]

\* Mutant of Resized: the array is left as it was returned.
Resized_unchanged(data, th, tw) == data

\* data_agent.py:237-239: np.resize to (tile_height, tile_width) when the
\* shape differs; a one-valued array stays one-valued.
Resized(data, th, tw) ==
    IF data.shape[1] # th \/ data.shape[2] # tw
    THEN [shape |-> <<th, tw>>, fill |-> data.fill, src |-> data.src]
    ELSE data

\* The slice full_data[y0:y0+th, x0:x0+tw] of data_agent.py:242: numpy
\* clamps a slice to the array.
Slice(y0, th, x0, tw) ==
    [y0 |-> Min(y0, full_height), y1 |-> Min(y0 + th, full_height),
     x0 |-> Min(x0, full_width), x1 |-> Min(x0 + tw, full_width)]

\* data_agent.py:242: the slice tile (ti, tj) is written into.
TileSlice(ti, tj) == Slice(y_start(ti), tile_height(ti), x_start(tj), tile_width(tj))

\* The assignment at data_agent.py:242 raises when the array does not have
\* the shape of the slice.
Assignable(sl, data) ==
    /\ data.shape[1] = sl.y1 - sl.y0
    /\ data.shape[2] = sl.x1 - sl.x0

\* full_data is the zero-filled array of data_agent.py:203 together with the
\* slice assignments made so far, in order.
Place(fd, sl, data) ==
    Append(fd, [y0 |-> sl.y0, y1 |-> sl.y1, x0 |-> sl.x0, x1 |-> sl.x1,
                val |-> data.fill, src |-> data.src])

\* The value of pixel (y, x): that of the last assignment covering it, or
\* the initial zero.
Covering(fd, y, x) ==
    {k \in 1..Len(fd) :
        fd[k].y0 <= y /\ y < fd[k].y1 /\ fd[k].x0 <= x /\ x < fd[k].x1}
PixelAt(fd, y, x) ==
    LET c == Covering(fd, y, x)
    IN  IF c = {} THEN 0
        ELSE fd[CHOOSE k \in c : \A m \in c : m <= k].val

---------------------------------------------------------------------------
(* Inputs. *)

\* Rectangles <<x1, y1, x2, y2, scale>> in 1/DegDen degrees.  At scale 30
\* they are 500 x 500 pixels (the sample limit exactly), 2809 x 89 (one
\* pixel above it), 451 x 2, 2 x 451, 451 x 555, 450 x 450, 0 x 2 and
\* 2 x 0; at scale 100 the first one is 150 x 150.
Requests ==
    { <<-879400, 416400, -879400 + 1348, 416400 + 1348, 30>>,
      <<-879400, 416400, -879400 + 7571, 416400 + 240, 30>>,
      <<-879400, 416400, -879400 + 1216, 416400 + 6, 30>>,
      <<-879400, 416400, -879400 + 6, 416400 + 1216, 30>>,
      <<-879400, 416400, -879400 + 1216, 416400 + 1496, 30>>,
      <<-879400, 416400, -879400 + 1213, 416400 + 1213, 30>>,
      <<-879400, 416400, -879400 + 2, 416400 + 6, 30>>,
      <<-879400, 416400, -879400 + 6, 416400 + 2, 30>>,
      <<-879400, 416400, -879400 + 1348, 416400 + 1348, 100>> }

\* How a call of download_geotiff_from_ee ends (data_agent.py:54-286): the
\* value it returns, and whether that was because a tile of the tiled
\* download failed its third attempt (250-257, 284-286), which returns False.
DownloadEnds ==
    {e \in [result : {"True", "False", "None"}, tile_exhausted : BOOLEAN] :
        e.tile_exhausted => e.result = "False"}

\* What the remote service answers to getDownloadURL / requests.get
\* (data_agent.py:65-72): the GeoTIFF, a non-200 response that reports a
\* size-limit violation or something else, or a raised error whose message
\* holds "must be less than or equal to", "Total request size", or neither.
DirectOutcomes ==
    {"ok200", "http_size", "http_other", "err_le", "err_total", "err_other"}

\* What a remote call of _download_large_area_as_numpy answers: a value, an
\* error whose message holds "Too many pixels" or "must be <=", or another
\* error.
RemoteOutcomes == {"ok", "err_size", "err_other"}

\* Shapes of the array sampleRectangle may return for the whole region.
SingleShapes == {<<Max(height, 1), Max(width, 1)>>, <<height + 1, width + 1>>}

\* Shapes of the array sampleRectangle may return for tile (ti, tj).
TileShapes(ti, tj) ==
    {<<tile_height(ti), tile_width(tj)>>,
     <<tile_height(ti) + 1, tile_width(tj) + 1>>,
     <<1, 1>>}

---------------------------------------------------------------------------
(* download_geotiff_from_ee and the functions it escalates to. *)

Init ==
    /\ \E rq \in Requests :
          /\ region = [x1 |-> rq[1], y1 |-> rq[2], x2 |-> rq[3], y2 |-> rq[4]]
          /\ scale = rq[5]
    /\ pc = "direct"
    /\ trail = <<"direct">>
    /\ tiled_by = "none"
    /\ result = "pending"
    /\ file = NoFile
    /\ full_width = 0
    /\ full_height = 0
    /\ n_tiles_x = 0
    /\ n_tiles_y = 0
    /\ full_data = <<>>
    /\ completed = 0
    /\ i = 0
    /\ j = 0
    /\ attempt = 0
    /\ tile_answer = "none"
    /\ direct_answer = "none"
    /\ NoJob
    /\ NoOther

\* return <value>
Return(value) ==
    /\ pc' = "done"
    /\ result' = value

\* data_agent.py:81, 89: return self._download_large_area_as_numpy(...)
EnterNumpy ==
    /\ pc' = "numpy"
    /\ trail' = Append(trail, "numpy")

\* data_agent.py:124, 157: return self._download_tiled(...)
EnterTiled(why) ==
    /\ pc' = "tiled"
    /\ trail' = Append(trail, "tiled")
    /\ tiled_by' = why

\* data_agent.py:60-92: the direct download attempt of
\* download_geotiff_from_ee.
DirectDownload ==
    /\ pc = "direct"
    /\ \E out \in DirectOutcomes :
       /\ direct_answer' = out
       /\ CASE out = "ok200" ->
                  \* 72-76: the response is written to filename
                  /\ file' = [via |-> "url"]
                  /\ Return("True")
                  /\ UNCHANGED trail
            [] out \in {"http_size", "http_other"} ->
                  \* 72: status_code != 200: the try block ends, no return
                  /\ Return("None")
                  /\ UNCHANGED <<file, trail>>
            [] out \in {"err_le", "err_total"} ->
                  \* 79-81 and 87-89
                  /\ EnterNumpy
                  /\ UNCHANGED <<file, result>>
            [] OTHER ->
                  \* 82-83 re-raised, 90-92
                  /\ Return("False")
                  /\ UNCHANGED <<file, trail>>
    /\ UNCHANGED <<region, scale, tiled_by>>
    /\ UNCHANGED tiledLocals
    /\ UNCHANGED <<jobVars, otherVars>>

\* data_agent.py:100-124 and 153-160: the bounds, the pixel count and the
\* choice between one sampleRectangle and the tiled download.
NumpyPlan ==
    /\ pc = "numpy"
    /\ \E out \in RemoteOutcomes :
          CASE out = "ok" ->
                  IF ExceedsSampleLimit(total_pixels)
                  THEN /\ EnterTiled("sample_limit")
                       /\ UNCHANGED result
                  ELSE /\ pc' = "single"
                       /\ trail' = Append(trail, "single")
                       /\ UNCHANGED <<result, tiled_by>>
            [] out = "err_size" ->
                  \* 155-157
                  /\ EnterTiled("size_error")
                  /\ UNCHANGED result
            [] OTHER ->
                  \* 158-160
                  /\ Return("False")
                  /\ UNCHANGED <<trail, tiled_by>>
    /\ UNCHANGED <<region, scale, file>>
    /\ UNCHANGED tiledLocals
    /\ UNCHANGED direct_answer
    /\ UNCHANGED <<jobVars, otherVars>>

\* data_agent.py:126-160: one sampleRectangle for the whole region, written
\* as a GeoTIFF.
SingleWindow ==
    /\ pc = "single"
    /\ \E out \in RemoteOutcomes :
          CASE out = "ok" ->
                  \E shape \in SingleShapes :
                      /\ file' = [via |-> "single",
                                  height |-> shape[1], width |-> shape[2],
                                  transform |-> from_bounds(min_lon, min_lat,
                                      max_lon, max_lat, shape[2], shape[1]),
                                  nodata |-> 0,
                                  data |-> <<[y0 |-> 0, y1 |-> shape[1],
                                              x0 |-> 0, x1 |-> shape[2],
                                              val |-> 1,
                                              src |-> [min_lon |-> <<min_lon, 0, 1>>,
                                                       min_lat |-> <<min_lat, 0, 1>>,
                                                       max_lon |-> <<max_lon, 0, 1>>,
                                                       max_lat |-> <<max_lat, 0, 1>>]]>>]
                      /\ Return("True")
                      /\ UNCHANGED <<trail, tiled_by>>
            [] out = "err_size" ->
                  /\ EnterTiled("size_error")
                  /\ UNCHANGED <<file, result>>
            [] OTHER ->
                  /\ Return("False")
                  /\ UNCHANGED <<file, trail, tiled_by>>
    /\ UNCHANGED <<region, scale>>
    /\ UNCHANGED tiledLocals
    /\ UNCHANGED direct_answer
    /\ UNCHANGED <<jobVars, otherVars>>

\* data_agent.py:168-208: the bounds, the dimensions, the tile grid and the
\* zero-filled array; any error returns False (284-286).
TiledSetup ==
    /\ pc = "tiled"
    /\ \/ /\ full_width' = PixelDim(min_lon, max_lon, scale)
          /\ full_height' = PixelDim(min_lat, max_lat, scale)
          /\ n_tiles_x' = NTiles(full_width')
          /\ n_tiles_y' = NTiles(full_height')
          /\ full_data' = <<>>
          /\ completed' = 0
          /\ i' = 0
          /\ j' = 0
          /\ attempt' = 0
          /\ tile_answer' = "none"
          \* 207-208: range(n_tiles_y), range(n_tiles_x) may be empty
          /\ pc' = IF n_tiles_y' > 0 /\ n_tiles_x' > 0 THEN "tile" ELSE "save"
          /\ UNCHANGED result
       \/ /\ Return("False")
          /\ UNCHANGED tiledLocals
    /\ UNCHANGED <<region, scale, trail, tiled_by, file>>
    /\ UNCHANGED direct_answer
    /\ UNCHANGED <<jobVars, otherVars>>

\* The loop header after tile (i, j) is done: data_agent.py:207-208.
NextTile ==
    IF j + 1 < n_tiles_x
    THEN /\ i' = i /\ j' = j + 1 /\ pc' = "tile"
    ELSE IF i + 1 < n_tiles_y
         THEN /\ i' = i + 1 /\ j' = 0 /\ pc' = "tile"
         ELSE /\ i' = i /\ j' = j /\ pc' = "save"

\* Mutant of AttemptFailed: after the third failure the attempts at the
\* tile start over.
AttemptFailed_again ==
    IF attempt < MAX_ATTEMPTS - 1
    THEN /\ attempt' = attempt + 1
         /\ UNCHANGED <<pc, result, i, j>>
    ELSE /\ attempt' = 0
         /\ UNCHANGED <<pc, result, i, j>>

\* Mutant of AttemptFailed: a fourth attempt is allowed.
AttemptFailed_fourth ==
    IF attempt < MAX_ATTEMPTS
    THEN /\ attempt' = attempt + 1
         /\ UNCHANGED <<pc, result, i, j>>
    ELSE /\ Return("False")
         /\ UNCHANGED <<i, j, attempt>>

\* Mutant of AttemptFailed: a tile that exhausts its attempts is skipped
\* and the loop goes on.
AttemptFailed_skip ==
    IF attempt < MAX_ATTEMPTS - 1
    THEN /\ attempt' = attempt + 1
         /\ UNCHANGED <<pc, result, i, j>>
    ELSE /\ attempt' = 0
         /\ NextTile
         /\ UNCHANGED result

\* data_agent.py:250-257: the handler of a failed attempt.
AttemptFailed ==
    IF attempt < MAX_ATTEMPTS - 1
    THEN /\ attempt' = attempt + 1
         /\ UNCHANGED <<pc, result, i, j>>
    ELSE \* 257: raise, caught at 284-286
         /\ Return("False")
         /\ UNCHANGED <<i, j, attempt>>

\* data_agent.py:233-237: the array sampleRectangle returned has the
\* expected shape (tile_height, tile_width) or another one.
Answer(shape, ti, tj) ==
    IF shape = <<tile_height(ti), tile_width(tj)>> THEN "match" ELSE "mismatch"

\* data_agent.py:231-248: one attempt at tile (i, j) for which the remote
\* service returns an array of the given shape.
TileFetched ==
    /\ pc = "tile"
    /\ \E shape \in TileShapes(i, j) :
          LET fitted == Resized(TileData(i, j, shape), tile_height(i), tile_width(j))
              sl == TileSlice(i, j)
          IN  /\ tile_answer' = Answer(shape, i, j)
              /\ IF Assignable(sl, fitted)
                 THEN /\ full_data' = Place(full_data, sl, fitted)
                      /\ completed' = completed + 1
                      \* 248: break; the next tile starts at attempt 0
                      /\ attempt' = 0
                      /\ NextTile
                      /\ UNCHANGED result
                 ELSE /\ AttemptFailed
                      /\ UNCHANGED <<full_data, completed>>
    /\ UNCHANGED <<region, scale, trail, tiled_by, file, full_width,
                   full_height, n_tiles_x, n_tiles_y>>
    /\ UNCHANGED direct_answer
    /\ UNCHANGED <<jobVars, otherVars>>

\* data_agent.py:231-234 and 250-257: one attempt at tile (i, j) in which
\* the remote call raises.
TileError ==
    /\ pc = "tile"
    /\ tile_answer' = "raised"
    /\ AttemptFailed
    /\ UNCHANGED <<region, scale, trail, tiled_by, file, full_width,
                   full_height, n_tiles_x, n_tiles_y, full_data, completed>>
    /\ UNCHANGED direct_answer
    /\ UNCHANGED <<jobVars, otherVars>>

\* data_agent.py:259-286: the full array is written as a GeoTIFF.  GDAL
\* refuses a raster without pixels, and the write may fail.
SaveRaster ==
    /\ pc = "save"
    /\ \/ /\ full_width > 0
          /\ full_height > 0
          /\ file' = [via |-> "tiled",
                      height |-> full_height, width |-> full_width,
                      transform |-> from_bounds(min_lon, min_lat, max_lon,
                                                max_lat, full_width, full_height),
                      nodata |-> 0,
                      data |-> full_data]
          /\ Return("True")
       \/ /\ Return("False")
          /\ UNCHANGED file
    /\ UNCHANGED <<region, scale, trail, tiled_by>>
    /\ UNCHANGED tiledLocals
    /\ UNCHANGED direct_answer
    /\ UNCHANGED <<jobVars, otherVars>>

Next ==
    \/ DirectDownload
    \/ NumpyPlan
    \/ SingleWindow
    \/ TiledSetup
    \/ TileFetched
    \/ TileError
    \/ SaveRaster

Spec == Init /\ [][Next]_vars

---------------------------------------------------------------------------
(* Properties of the tiled download. *)

Range(s) == {s[k] : k \in 1..Len(s)}

RECURSIVE SeqSum(_)
SeqSum(s) == IF s = <<>> THEN 0 ELSE Head(s) + SeqSum(Tail(s))

\* The tile loop has ended with every tile placed.
AllTilesPlaced == pc = "save" /\ completed = total_tiles

\* Widths of the windows written in the tile row starting at pixel row r,
\* heights of those written in the tile column starting at pixel column c.
RowWidths(fd, r) ==
    SeqSum([k \in 1..Len(fd) |-> IF fd[k].y0 = r THEN fd[k].x1 - fd[k].x0 ELSE 0])
ColumnHeights(fd, c) ==
    SeqSum([k \in 1..Len(fd) |-> IF fd[k].x0 = c THEN fd[k].y1 - fd[k].y0 ELSE 0])

\* C1: for a region with positive full_width and full_height, the pixel
\* windows the tiled download writes cover every pixel of the
\* full_height x full_width grid exactly once, the widths of the windows of
\* each tile row sum to full_width and the heights of the windows of each
\* tile column sum to full_height.
C1_WindowsTileGrid ==
    (AllTilesPlaced /\ full_width > 0 /\ full_height > 0) =>
        /\ Len(full_data) = total_tiles
        /\ \A k \in 1..Len(full_data) :
              /\ 0 <= full_data[k].y0 /\ full_data[k].y1 <= full_height
              /\ 0 <= full_data[k].x0 /\ full_data[k].x1 <= full_width
        /\ \A y \in 0..(full_height - 1) : \A x \in 0..(full_width - 1) :
              Cardinality(Covering(full_data, y, x)) = 1
        /\ \A k \in 1..Len(full_data) :
              /\ RowWidths(full_data, full_data[k].y0) = full_width
              /\ ColumnHeights(full_data, full_data[k].x0) = full_height

\* C1 witness: a plan of at least 2 x 2 tiles with a partial last row and
\* column has been placed completely.
C1_Witness ==
    /\ AllTilesPlaced
    /\ n_tiles_x >= 2 /\ n_tiles_y >= 2
    /\ full_width % 450 # 0 /\ full_height % 450 # 0
    /\ Len(full_data) = n_tiles_x * n_tiles_y

\* The geotransform of the written raster maps pixel (0, 0) to
\* (min_lon, max_lat).
OriginAtTopLeft(t) ==
    /\ TransformLon(t, 0) = <<min_lon, 0, 1>>
    /\ TransformLat(t, 0) = <<max_lat, 0, 1>>

\* Every array in the raster depicts the rectangle the raster's
\* geotransform assigns to the window it was written into.
WindowsMatchTransform(f) ==
    \A k \in 1..Len(f.data) :
        f.data[k].src = WindowRegion(f.transform, f.data[k].y0, f.data[k].y1,
                                     f.data[k].x0, f.data[k].x1)

\* C2: the raster written by the tiled download maps pixel (0, 0) to
\* (min_lon, max_lat), and for every tile the rectangle requested from the
\* remote service is the rectangle the geotransform assigns to the pixel
\* window the tile was written into.
C2_TilingInvisible ==
    file.via = "tiled" =>
        /\ OriginAtTopLeft(file.transform)
        /\ WindowsMatchTransform(file)

\* C2, restricted to plans with a single tile row: the statement that does
\* hold of the code.
C2_SingleTileRow ==
    (file.via = "tiled" /\ n_tiles_y = 1) =>
        /\ OriginAtTopLeft(file.transform)
        /\ WindowsMatchTransform(file)

\* C2: with two or more tile rows, tile row 0 is requested at the southern
\* edge of the region and written at the northern edge of the raster.
C2_RowsFlipped ==
    (file.via = "tiled" /\ n_tiles_y >= 2) =>
        /\ OriginAtTopLeft(file.transform)
        /\ \A k \in 1..Len(file.data) :
              LET w == WindowRegion(file.transform, file.data[k].y0,
                                    file.data[k].y1, file.data[k].x0,
                                    file.data[k].x1)
              IN  /\ file.data[k].src.min_lon = w.min_lon
                  /\ file.data[k].src.max_lon = w.max_lon
                  /\ file.data[k].src # w

\* download_geotiff_from_ee has returned because a tile failed its third
\* attempt.
ReturnedOnExhaustedTile == pc = "done" /\ attempt = MAX_ATTEMPTS - 1

\* The ways download_geotiff_from_ee ends are those the getters are
\* followed with.
EndsAsDownloadEnds ==
    pc = "done" =>
        [result |-> result, tile_exhausted |-> ReturnedOnExhaustedTile]
            \in DownloadEnds

\* The remote service rejected the direct download for a size-limit
\* violation, by a raised error or by a non-success HTTP response.
SizeRejected == direct_answer \in {"err_le", "err_total", "http_size"}

\* C13: whenever the direct download is rejected for a size-limit
\* violation, download_geotiff_from_ee goes on to the array-based path, and
\* from there to the tiled path when the region exceeds the sample limit.
C13_SizeRejectionEscalates ==
    SizeRejected =>
        /\ "numpy" \in Range(trail)
        /\ "single" \in Range(trail) => total_pixels <= SAMPLE_LIMIT

\* C13, for rejections signalled by a raised error: the statement that
\* does hold of the code.
C13_RaisedSizeErrorEscalates ==
    direct_answer \in {"err_le", "err_total"} =>
        /\ "numpy" \in Range(trail)
        /\ "single" \in Range(trail) => total_pixels <= SAMPLE_LIMIT

\* C13: a size-limit rejection that arrives as a non-success HTTP response
\* ends the download at once with None, which the getters read as failure.
C13_HttpRejectionReturnsNone ==
    direct_answer \in {"http_size", "http_other"} =>
        pc = "done" /\ result = "None" /\ trail = <<"direct">> /\ file = NoFile

\* The tile grid has been computed (data_agent.py:183-195).
PlanReady == pc \in {"tile", "save"}

TileRows == 0..(n_tiles_y - 1)
TileCols == 0..(n_tiles_x - 1)

\* The region is a valid bounding box: min < max on each axis.
NonDegenerate == min_lon < max_lon /\ min_lat < max_lat

Exact(v) == <<v, 0, 1>>

\* Two rectangles have disjoint interiors.
DisjointInteriors(a, b) ==
    \/ GeoLeq(a.max_lon, b.min_lon) \/ GeoLeq(b.max_lon, a.min_lon)
    \/ GeoLeq(a.max_lat, b.min_lat) \/ GeoLeq(b.max_lat, a.min_lat)

\* The rectangles of the plan split the bounding box: there is at least
\* one, each has min < max, the first starts at min_lon / min_lat, adjacent
\* ones share their edge coordinate, the last ends at max_lon / max_lat, and
\* any two have disjoint interiors.
PlanSplitsBounds ==
    /\ n_tiles_x >= 1 /\ n_tiles_y >= 1
    /\ tile_min_lon(0) = Exact(min_lon)
    /\ tile_max_lon(n_tiles_x - 1) = Exact(max_lon)
    /\ tile_min_lat(0) = Exact(min_lat)
    /\ tile_max_lat(n_tiles_y - 1) = Exact(max_lat)
    /\ \A tj \in TileCols :
          /\ GeoLess(tile_min_lon(tj), tile_max_lon(tj))
          /\ tj + 1 < n_tiles_x => tile_max_lon(tj) = tile_min_lon(tj + 1)
    /\ \A ti \in TileRows :
          /\ GeoLess(tile_min_lat(ti), tile_max_lat(ti))
          /\ ti + 1 < n_tiles_y => tile_max_lat(ti) = tile_min_lat(ti + 1)
    /\ \A ti \in TileRows, tj \in TileCols, ui \in TileRows, uj \in TileCols :
          <<ti, tj>> # <<ui, uj>> =>
              DisjointInteriors(tile_region(ti, tj), tile_region(ui, uj))
    /\ \A k \in 1..Len(full_data) :
          \E ti \in TileRows, tj \in TileCols :
              full_data[k].src = tile_region(ti, tj)

CeilOf450(full) == CHOOSE n \in 0..(full + 1) : n * 450 >= full /\ (n - 1) * 450 < full

\* C4: the plan holds ceil(full_width / 450) * ceil(full_height / 450)
\* tiles, each at most 450 wide and 450 high; only the last tile column is
\* narrower than 450 and only the last tile row shorter than 450.
C4_TileCountAndSides ==
    (PlanReady /\ full_width >= 0 /\ full_height >= 0) =>
        /\ total_tiles = CeilOf450(full_width) * CeilOf450(full_height)
        /\ Cardinality(TileRows \X TileCols) = total_tiles
        /\ AllTilesPlaced => Len(full_data) = total_tiles
        /\ \A tj \in TileCols :
              /\ tile_width(tj) <= 450
              /\ tj < n_tiles_x - 1 => tile_width(tj) = 450
        /\ \A ti \in TileRows :
              /\ tile_height(ti) <= 450
              /\ ti < n_tiles_y - 1 => tile_height(ti) = 450
        /\ \A k \in 1..Len(full_data) :
              /\ full_data[k].x1 - full_data[k].x0 <= 450
              /\ full_data[k].y1 - full_data[k].y0 <= 450

\* C4 witness: a plan of 7 x 1 tiles, the last one 109 wide and all 89 high,
\* has been placed.
C4_Witness ==
    /\ AllTilesPlaced
    /\ n_tiles_x = 7 /\ n_tiles_y = 1
    /\ Len(full_data) = 7
    /\ tile_width(6) = 109 /\ tile_height(0) = 89

\* C5 as stated: a region at the sample limit takes the single-request
\* path, a region above it the tiled path, and a region at or under the
\* limit is never tiled.
C5_NeverTiledUnderLimit ==
    /\ "single" \in Range(trail) => total_pixels <= 250000
    /\ "tiled" \in Range(trail) => total_pixels > 250000

\* C5, amended: the single request is made only for a region at or under
\* the sample limit; a region above the limit is tiled without a single
\* request; a region at or under the limit is tiled only after a remote
\* call of the single-request path failed with a size-limit error.
C5_TiledUnderLimitOnlyOnSizeError ==
    /\ "single" \in Range(trail) => total_pixels <= 250000
    /\ tiled_by = "sample_limit" =>
          /\ total_pixels > 250000
          /\ "single" \notin Range(trail)
    /\ ("tiled" \in Range(trail) /\ total_pixels <= 250000) =>
          tiled_by = "size_error"
    /\ ("tiled" \in Range(trail)) = (tiled_by # "none")

\* C5 witness: a region of exactly 250000 pixels was written by the single
\* request.
C5_Witness ==
    /\ total_pixels = 250000
    /\ pc = "done" /\ result = "True"
    /\ file.via = "single"
    /\ "tiled" \notin Range(trail)

\* C5 second case: a region of 250001 pixels is in the tile loop and no
\* single request was made.
C5_OneAboveIsTiled ==
    ~(total_pixels = 250001 /\ pc = "tile" /\ tiled_by = "sample_limit")

\* C6: every step of the tile loop is one fetch of the tile (i, j) that is
\* next in row-major order; it is attempt number attempt + 1 <= 3 of that
\* tile; a success moves on to the next tile with the counter back at 0, a
\* failure before the third attempt retries the same tile, and a third
\* failure ends the download.  No completed tile is fetched again.
C6_AtMostThreeAttempts ==
    /\ [](pc = "tile" =>
            /\ attempt \in 0..2
            /\ i \in TileRows /\ j \in TileCols
            /\ completed = i * n_tiles_x + j)
    /\ [][pc = "tile" =>
            \/ /\ completed' = completed + 1
               /\ attempt' = 0
               /\ pc' \in {"tile", "save"}
               /\ pc' = "tile" => i' * n_tiles_x + j' = completed + 1
            \/ /\ completed' = completed
               /\ attempt < 2
               /\ attempt' = attempt + 1
               /\ pc' = "tile" /\ i' = i /\ j' = j
            \/ /\ completed' = completed
               /\ attempt = 2
               /\ pc' = "done"]_vars

\* C6 witness: a later tile is at its third attempt.
C6_Witness == pc = "tile" /\ attempt = 2 /\ completed >= 1

\* C7: a third failed attempt at a tile ends the download with failure and
\* leaves the file alone; after the return nothing is fetched or written;
\* the raster is written only with every tile of the plan placed.
C7_NoPartialRaster ==
    /\ [](file.via = "tiled" =>
            /\ completed = total_tiles
            /\ Len(file.data) = total_tiles
            /\ result = "True")
    /\ [][(pc = "tile" /\ attempt = 2 /\ completed' = completed) =>
            /\ pc' = "done"
            /\ result' = "False"
            /\ file' = file
            /\ full_data' = full_data]_vars
    /\ [][pc = "done" => FALSE]_vars

\* C7 witness: the download has returned failure from a partially filled
\* array and no raster was written.
C7_Witness ==
    /\ pc = "done" /\ result = "False"
    /\ completed >= 1 /\ completed < total_tiles
    /\ file = NoFile

\* C8: with every tile returned, each pixel of the array holds the value of
\* the tile whose window contains it; none holds the initial zero.
C8_EveryPixelFromItsTile ==
    AllTilesPlaced =>
        \A y \in 0..(full_height - 1) : \A x \in 0..(full_width - 1) :
            LET ti == y \div 450
                tj == x \div 450
            IN  /\ y_start(ti) <= y /\ y < y_end(ti)
                /\ x_start(tj) <= x /\ x < x_end(tj)
                /\ PixelAt(full_data, y, x) = TileValue(ti, tj)
                /\ PixelAt(full_data, y, x) # 0

\* C8 witness: a plan of 2 x 2 tiles with partial last row and column has
\* been stitched and written.
C8_Witness ==
    /\ pc = "done" /\ file.via = "tiled"
    /\ n_tiles_x = 2 /\ n_tiles_y = 2
    /\ file.data = full_data
    /\ PixelAt(file.data, 450, 450) = 4
    /\ PixelAt(file.data, 449, 450) = 2

---------------------------------------------------------------------------
(* The tile loop with the tiles completing in any order. *)

\* Rectangles of 1351 x 1, 2 x 901 and 451 x 451 pixels at scale 30.
OrderRequests ==
    { <<-879400, 416400, -879400 + 3643, 416400 + 3, 30>>,
      <<-879400, 416400, -879400 + 6, 416400 + 2429, 30>>,
      <<-879400, 416400, -879400 + 1216, 416400 + 1216, 30>> }

InitOrder ==
    /\ \E rq \in OrderRequests :
          /\ region = [x1 |-> rq[1], y1 |-> rq[2], x2 |-> rq[3], y2 |-> rq[4]]
          /\ scale = rq[5]
    /\ pc = "tiled"
    /\ trail = <<"direct", "numpy", "tiled">>
    /\ tiled_by = "size_error"
    /\ result = "pending"
    /\ file = NoFile
    /\ full_width = 0
    /\ full_height = 0
    /\ n_tiles_x = 0
    /\ n_tiles_y = 0
    /\ full_data = <<>>
    /\ completed = 0
    /\ i = 0
    /\ j = 0
    /\ attempt = 0
    /\ tile_answer = "none"
    /\ direct_answer = "err_le"
    /\ NoJob
    /\ NoOther

\* The tiles whose array has been written into full_data.
PlacedTiles ==
    {t \in TileRows \X TileCols :
        \E k \in 1..Len(full_data) : full_data[k].val = TileValue(t[1], t[2])}

\* The body of the tile loop (data_agent.py:209-248) for any tile that is
\* still missing, with the array the remote service returns for it.
TileFetchedAnyOrder ==
    /\ pc = "tile"
    /\ \E t \in (TileRows \X TileCols) \ PlacedTiles :
          \E shape \in TileShapes(t[1], t[2]) :
              LET fitted == Resized(TileData(t[1], t[2], shape),
                                    tile_height(t[1]), tile_width(t[2]))
                  sl == TileSlice(t[1], t[2])
              IN  /\ Assignable(sl, fitted)
                  /\ tile_answer' = Answer(shape, t[1], t[2])
                  /\ full_data' = Place(full_data, sl, fitted)
                  /\ completed' = completed + 1
                  /\ i' = t[1]
                  /\ j' = t[2]
                  /\ pc' = IF completed' = total_tiles THEN "save" ELSE "tile"
    /\ UNCHANGED <<region, scale, trail, tiled_by, file, result, full_width,
                   full_height, n_tiles_x, n_tiles_y, attempt>>
    /\ UNCHANGED direct_answer
    /\ UNCHANGED <<jobVars, otherVars>>

NextOrder ==
    \/ TiledSetup
    \/ TileFetchedAnyOrder
    \/ SaveRaster

SpecOrder == InitOrder /\ [][NextOrder]_vars

\* full_data after the first n tiles of the loop of data_agent.py:207-248,
\* which visits the tiles row by row.
RECURSIVE RowMajorData(_)
RowMajorData(n) ==
    IF n = 0 THEN <<>>
    ELSE LET ti == (n - 1) \div n_tiles_x
             tj == (n - 1) % n_tiles_x
         IN  Place(RowMajorData(n - 1), TileSlice(ti, tj),
                   TileData(ti, tj, <<tile_height(ti), tile_width(tj)>>))

\* C9: whatever the order in which the tiles were placed, the finished
\* array equals, pixel by pixel, the one the row-by-row loop produces.
C9_OrderIndependent ==
    AllTilesPlaced =>
        LET row_major == RowMajorData(total_tiles)
        IN  \A y \in 0..(full_height - 1) : \A x \in 0..(full_width - 1) :
                PixelAt(full_data, y, x) = PixelAt(row_major, y, x)

\* C9 witness: four tiles have been placed in an order other than the
\* loop's.
C9_Witness ==
    /\ AllTilesPlaced
    /\ total_tiles = 4
    /\ n_tiles_y = 2
    /\ full_data # RowMajorData(total_tiles)
    /\ full_data[1].val = 4

---------------------------------------------------------------------------
(* process_city_data and the dataset getters. *)

\* Longest data_types list followed.
MaxTypes == 2

\* Mutant of KnownTypes: the basemap branch is missing.
KnownTypes_without_basemap == {"land_cover", "tree_cover", "ndvi", "population"}

\* data_agent.py:640-658: the ids process_city_data knows.
KnownTypes == {"land_cover", "tree_cover", "ndvi", "population", "basemap"}

\* The ids a caller may pass: the known ones and one that is not.
RequestableTypes ==
    {"land_cover", "tree_cover", "ndvi", "population", "basemap", "soil"}

DataTypeLists == UNION {[1..n -> RequestableTypes] : n \in 0..MaxTypes}

\* What Geocoder.get_bounding_box may return (geocoding.py:9-38): a box
\* inside the NLCD coverage, a box outside it, a box whose south-west
\* corner is inside and whose north-east corner is outside, or None.
BoundingBoxes ==
    { [min_lon |-> -88 * DegDen, min_lat |-> 41 * DegDen,
       max_lon |-> -87 * DegDen, max_lat |-> 42 * DegDen],
      [min_lon |-> -1 * DegDen, min_lat |-> 51 * DegDen,
       max_lon |-> 0, max_lat |-> 52 * DegDen],
      [min_lon |-> -61 * DegDen, min_lat |-> 49 * DegDen,
       max_lon |-> -59 * DegDen, max_lat |-> 51 * DegDen],
      None }

\* Mutant of InUSA: every location passes the coverage test.
InUSA_everywhere(bb) == TRUE

\* data_agent.py:294, 337: the NLCD coverage test.
InUSA(bb) ==
    /\ -130 * DegDen <= bb.min_lon /\ bb.min_lon <= -60 * DegDen
    /\ 24 * DegDen <= bb.min_lat /\ bb.min_lat <= 50 * DegDen

\* The source label of a dataset (data_agent.py:642-658).
SourceOf(dt) ==
    CASE dt = "land_cover" -> "NLCD Land Cover"
      [] dt = "tree_cover" -> "NLCD Tree Canopy"
      [] dt = "ndvi" -> "Sentinel-2 NDVI"
      [] dt = "population" -> "WorldPop Population"
      [] dt = "basemap" -> "Sentinel-2 RGB Satellite"

\* final_file of each getter (data_agent.py:321, 374, 416, 465, 525, 590).
FinalFile(dt) ==
    CASE dt = "land_cover" -> "outputs/landcover_aligned.tif"
      [] dt = "tree_cover" -> "outputs/treecover_aligned.tif"
      [] dt = "ndvi" -> "outputs/ndvi_aligned.tif"
      [] dt = "population" -> "outputs/population_aligned.tif"
      [] dt = "basemap" -> "outputs/basemap_aligned.tif"

\* How the steps of one getter call turn out: the Earth Engine calls that
\* build the image, download_geotiff_from_ee, clip_raster, reproject_raster
\* and os.rename; and, for the population fallback, the streamed read, its
\* reproject_raster and its os.rename.
StepOutcomes ==
    [prepare : {"ok", "raise"},
     download : DownloadEnds,
     clip : BOOLEAN,
     reproject : BOOLEAN,
     rename : {"ok", "raise"},
     stream : {"ok", "raise"},
     reproject_direct : BOOLEAN,
     rename_direct : {"ok", "raise"}]

\* A step that is not run has no outcome: in o it holds the first value of
\* its range.  The getters stop at the first step that fails
\* (data_agent.py:310-322); only the population getter runs the fallback
\* steps, after a failed download or an exception (509-511, 531-534).
OnlyStepsRun(dt, o) ==
    LET ran_download == o.prepare = "ok"
        ran_clip == ran_download /\ o.download.result = "True"
        ran_reproject == ran_clip /\ o.clip
        ran_rename == ran_reproject /\ o.reproject
        ran_stream == /\ dt = "population"
                      /\ \/ ~ran_clip
                         \/ ran_rename /\ o.rename = "raise"
        ran_reproject_direct == ran_stream /\ o.stream = "ok"
        ran_rename_direct == ran_reproject_direct /\ o.reproject_direct
    IN  /\ ~ran_download => o.download = [result |-> "True", tile_exhausted |-> FALSE]
        /\ ~ran_clip => o.clip
        /\ ~ran_reproject => o.reproject
        /\ ~ran_rename => o.rename = "ok"
        /\ ~ran_stream => o.stream = "ok"
        /\ ~ran_reproject_direct => o.reproject_direct
        /\ ~ran_rename_direct => o.rename_direct = "ok"

\* The outcomes to follow for the getter of dt.
StepOutcomesOf(dt) == {o \in StepOutcomes : OnlyStepsRun(dt, o)}

\* What a getter call gives back: the path it returns (or None), the route
\* that produced it, and whether os.rename put the final file in place.
GetterReturn(path, route) ==
    [path |-> path, route |-> route, renamed |-> path # "None"]

\* Mutant of get_raster: the value download_geotiff_from_ee returns is not
\* looked at.
get_raster_ignoring_download(dt, o) ==
    IF o.prepare = "ok" /\ o.clip /\ o.reproject /\ o.rename = "ok"
    THEN GetterReturn(FinalFile(dt), "earth_engine")
    ELSE GetterReturn("None", "earth_engine")

\* data_agent.py:302-329 (and 343-382, 387-424, 431-473): download, clip,
\* reproject and rename inside one try block; any failure returns None.
get_raster(dt, o) ==
    IF /\ o.prepare = "ok"
       /\ o.download.result = "True"
       /\ o.clip
       /\ o.reproject
       /\ o.rename = "ok"
    THEN GetterReturn(FinalFile(dt), "earth_engine")
    ELSE GetterReturn("None", "earth_engine")

\* data_agent.py:288-329.
get_landcover_raster(bb, o) ==
    IF ~InUSA(bb) THEN GetterReturn("None", "skipped")
    ELSE get_raster("land_cover", o)

\* data_agent.py:331-382.
get_treecover_raster(bb, o) ==
    IF ~InUSA(bb) THEN GetterReturn("None", "skipped")
    ELSE get_raster("tree_cover", o)

\* data_agent.py:383-424.
get_ndvi_raster(bb, o) == get_raster("ndvi", o)

\* data_agent.py:426-473.
get_basemap_raster(bb, o) == get_raster("basemap", o)

\* data_agent.py:536-598.
download_population_direct(o) ==
    IF o.stream = "ok" /\ o.reproject_direct /\ o.rename_direct = "ok"
    THEN GetterReturn(FinalFile("population"), "direct")
    ELSE GetterReturn("None", "direct")

\* Mutant of get_population_raster: a failed clip also falls back to
\* _download_population_direct.
get_population_raster_after_clip(bb, o) ==
    IF o.prepare = "raise" THEN download_population_direct(o)
    ELSE IF o.download.result # "True" THEN download_population_direct(o)
    ELSE IF ~o.clip THEN download_population_direct(o)
    ELSE IF ~o.reproject THEN GetterReturn("None", "earth_engine")
    ELSE IF o.rename = "raise" THEN download_population_direct(o)
    ELSE GetterReturn(FinalFile("population"), "earth_engine")

\* data_agent.py:475-534: a failed download and any exception fall back to
\* _download_population_direct; a failed clip or reproject returns None.
get_population_raster(bb, o) ==
    IF o.prepare = "raise" THEN download_population_direct(o)
    ELSE IF o.download.result # "True" THEN download_population_direct(o)
    ELSE IF ~o.clip THEN GetterReturn("None", "earth_engine")
    ELSE IF ~o.reproject THEN GetterReturn("None", "earth_engine")
    ELSE IF o.rename = "raise" THEN download_population_direct(o)
    ELSE GetterReturn(FinalFile("population"), "earth_engine")

\* One step of a getter call and whether it succeeded.
Step(name, ok) == [stage |-> name, ok |-> ok]

\* The steps a getter call runs through download_geotiff_from_ee,
\* clip_raster, reproject_raster and os.rename (data_agent.py:302-325 and
\* the same lines of the other getters), up to the first that fails:
\* building the image, the fetch, the clip, the reprojection, the rename.
EarthEngineSteps(o) ==
    IF o.prepare = "raise" THEN <<Step("prepare", FALSE)>>
    ELSE IF o.download.result # "True"
    THEN <<Step("prepare", TRUE), Step("fetch", FALSE)>>
    ELSE IF ~o.clip
    THEN <<Step("prepare", TRUE), Step("fetch", TRUE), Step("clip", FALSE)>>
    ELSE IF ~o.reproject
    THEN <<Step("prepare", TRUE), Step("fetch", TRUE), Step("clip", TRUE),
           Step("reproject", FALSE)>>
    ELSE <<Step("prepare", TRUE), Step("fetch", TRUE), Step("clip", TRUE),
           Step("reproject", TRUE), Step("rename", o.rename = "ok")>>

\* The steps of _download_population_direct (data_agent.py:536-598): the
\* streamed window read, the reprojection, the rename; there is no clip.
DirectSteps(o) ==
    IF o.stream = "raise" THEN <<Step("stream", FALSE)>>
    ELSE IF ~o.reproject_direct
    THEN <<Step("stream", TRUE), Step("reproject", FALSE)>>
    ELSE <<Step("stream", TRUE), Step("reproject", TRUE),
           Step("rename", o.rename_direct = "ok")>>

\* The steps the getter of dt runs, in order: none for an NLCD dataset
\* that is skipped (data_agent.py:294-298, 337-341); for population the
\* fallback follows a failed fetch and any exception (509-511, 531-534).
Stages(dt, bb, o) ==
    IF dt \in {"land_cover", "tree_cover"} /\ ~InUSA(bb) THEN <<>>
    ELSE IF dt = "population" /\ get_population_raster(bb, o).route = "direct"
    THEN EarthEngineSteps(o) \o DirectSteps(o)
    ELSE EarthEngineSteps(o)

\* The year of the source data the getter of dt requests for the year it
\* is given: NLCD land cover is always the 2019 image (data_agent.py:302),
\* tree cover uses 2021 outside 2011-2023 (346-355), NDVI and the basemap
\* filter on the year (396, 443), population uses 2020 outside 2000-2020
\* (484-486).
RequestedYear(dt, y) ==
    CASE dt = "land_cover" -> 2019
      [] dt = "tree_cover" -> IF 2011 <= y /\ y <= 2023 THEN y ELSE 2021
      [] dt = "population" -> IF y < 2000 \/ y > 2020 THEN 2020 ELSE y
      [] OTHER -> y

\* data_agent.py:640-658: the getter of a known data type.
Getter(dt, bb, o) ==
    CASE dt = "land_cover" -> get_landcover_raster(bb, o)
      [] dt = "tree_cover" -> get_treecover_raster(bb, o)
      [] dt = "ndvi" -> get_ndvi_raster(bb, o)
      [] dt = "population" -> get_population_raster(bb, o)
      [] dt = "basemap" -> get_basemap_raster(bb, o)

\* The getter call reached download_geotiff_from_ee (data_agent.py:310,
\* 363, 405, 454, 509) and a tile of its tiled download failed its third
\* attempt.
TileExhausted(dt, bb, o) ==
    /\ o.prepare = "ok"
    /\ dt \in {"land_cover", "tree_cover"} => InUSA(bb)
    /\ o.download.tile_exhausted

\* The messages of the errors validate_raster catches for a file that
\* exists (validation.py:35-39): it is no raster, band 1 cannot be read, or
\* it has no pixels.
ValidationErrors ==
    {"not recognized as a supported file format", "Read failed",
     "zero-size array to reduction operation"}

\* What validate_raster may return for a file that exists
\* (validation.py:9-39), as far as process_city_data and create_manifest
\* read it.
Validations ==
    { [file_exists |-> TRUE, crs_match |-> TRUE],
      [file_exists |-> TRUE, crs_match |-> FALSE] }
    \cup [file_exists : {FALSE}, error : ValidationErrors]

\* Mutant of CrsMatch: a record without crs_match counts as a match.
CrsMatch_default_true(v) == IF "crs_match" \in DOMAIN v THEN v.crs_match ELSE TRUE

\* validation.get("crs_match", False)
CrsMatch(v) == IF "crs_match" \in DOMAIN v THEN v.crs_match ELSE FALSE

\* dict[key] = value
Put(dict, key, value) ==
    [d \in DOMAIN dict \cup {key} |-> IF d = key THEN value ELSE dict[d]]

\* data_agent.py:664: if file_path and os.path.exists(file_path)
Produced(file_path, files) == file_path # "None" /\ file_path \in files

\* Mutant of create_manifest: the validation records are left out.
create_manifest_without_validation(aoi, datasets, validations) ==
    [aoi_bbox |-> aoi,
     datasets |-> datasets,
     validation |-> EmptyDict,
     processing_parameters |->
        [target_crs |-> "EPSG:5070",
         target_resolution |-> 30,
         success |-> \A d \in DOMAIN validations : CrsMatch(validations[d])]]

\* Mutant of create_manifest: a record of a raster that could not be read
\* does not count against success.
create_manifest_skipping_unreadable(aoi, datasets, validations) ==
    [aoi_bbox |-> aoi,
     datasets |-> datasets,
     validation |-> validations,
     processing_parameters |->
        [target_crs |-> "EPSG:5070",
         target_resolution |-> 30,
         success |-> \A d \in DOMAIN validations :
                        validations[d].file_exists => validations[d].crs_match]]

\* validation.py:41-57.
create_manifest(aoi, datasets, validations) ==
    [aoi_bbox |-> aoi,
     datasets |-> datasets,
     validation |-> validations,
     processing_parameters |->
        [target_crs |-> "EPSG:5070",
         target_resolution |-> 30,
         success |-> \A d \in DOMAIN validations : CrsMatch(validations[d])]]

\* Mutant of Status: a job is never reported as failed.
Status_never_failed(outs) == "completed"

\* data_agent.py:700: "completed" if outputs else "failed"
Status(outs) == IF DOMAIN outs # {} THEN "completed" ELSE "failed"

\* Files a previous job may have left under outputs/.
StaleDisks == {{}, {FinalFile(dt) : dt \in KnownTypes}}

InitJob ==
    /\ region = None
    /\ scale = 0
    /\ pc = "idle"
    /\ trail = <<>>
    /\ tiled_by = "none"
    /\ result = "pending"
    /\ file = NoFile
    /\ full_width = 0
    /\ full_height = 0
    /\ n_tiles_x = 0
    /\ n_tiles_y = 0
    /\ full_data = <<>>
    /\ completed = 0
    /\ i = 0
    /\ j = 0
    /\ attempt = 0
    /\ tile_answer = "none"
    /\ job_pc = "geocode"
    /\ bbox = None
    /\ data_types \in DataTypeLists
    /\ pos = 1
    /\ outputs = EmptyDict
    /\ dataset_info = EmptyDict
    /\ validation_results = EmptyDict
    /\ manifest = None
    /\ disk \in StaleDisks
    /\ getter_log = <<>>
    /\ stages = <<>>
    /\ year = DefaultYear
    /\ direct_answer = "none"
    /\ NoOther

downloadVars == <<region, scale, pc, trail, tiled_by, result, file,
                  full_width, full_height, n_tiles_x, n_tiles_y, full_data,
                  completed, i, j, attempt, tile_answer, direct_answer>>

\* Mutant of Geocode: without a bounding box the job goes on to build a
\* manifest.
Geocode_without_check ==
    /\ job_pc = "geocode"
    /\ \E b \in BoundingBoxes :
          /\ bbox' = b
          /\ IF b = None
             THEN /\ job_pc' = "returned"
                  /\ manifest' = Put(Put(create_manifest(b, dataset_info,
                                                         validation_results),
                                         "outputs", outputs),
                                     "status", "failed")
             ELSE /\ job_pc' = "loop"
                  /\ UNCHANGED manifest
    /\ UNCHANGED <<data_types, pos, outputs, dataset_info, validation_results,
                   disk, getter_log, stages, year>>
    /\ UNCHANGED <<downloadVars, otherVars>>

\* data_agent.py:623-629: geocode the city; without a bounding box the
\* function raises ValueError.
Geocode ==
    /\ job_pc = "geocode"
    /\ \E b \in BoundingBoxes :
          /\ bbox' = b
          /\ job_pc' = IF b = None THEN "raised" ELSE "loop"
    /\ UNCHANGED <<data_types, pos, outputs, dataset_info, validation_results,
                   manifest, disk, getter_log, stages, year>>
    /\ UNCHANGED <<downloadVars, otherVars>>

\* data_agent.py:632-688: one iteration of the loop over data_types.
ProcessDataset ==
    /\ job_pc = "loop"
    /\ pos <= Len(data_types)
    /\ LET data_type == data_types[pos]
       IN  IF data_type \notin KnownTypes
           THEN \* 660-662: continue
                UNCHANGED <<outputs, dataset_info, validation_results, disk,
                            getter_log, stages>>
           ELSE \E o \in StepOutcomesOf(data_type) :
                  LET got == Getter(data_type, bbox, o)
                      file_path == got.path
                  IN  /\ disk' = IF got.renamed THEN disk \cup {file_path} ELSE disk
                      /\ stages' = Stages(data_type, bbox, o)
                      /\ getter_log' = Append(getter_log,
                              [data_type |-> data_type, path |-> file_path,
                               route |-> got.route,
                               requested_year |-> RequestedYear(data_type, year),
                               tile_exhausted |->
                                   TileExhausted(data_type, bbox, o)])
                      /\ IF Produced(file_path, disk')
                         THEN \E validation \in Validations :
                                /\ outputs' = Put(outputs, data_type, file_path)
                                /\ validation_results' =
                                       Put(validation_results, data_type, validation)
                                /\ dataset_info' = Put(dataset_info, data_type,
                                       [source |-> SourceOf(data_type),
                                        resolution |-> "30m",
                                        crs |-> "EPSG:5070",
                                        bbox |-> bbox,
                                        year |-> year,
                                        validation |->
                                            [crs_match |-> CrsMatch(validation)]])
                         ELSE UNCHANGED <<outputs, dataset_info, validation_results>>
    /\ pos' = pos + 1
    /\ UNCHANGED <<job_pc, bbox, data_types, manifest, year>>
    /\ UNCHANGED <<downloadVars, otherVars>>

\* data_agent.py:690-716: the manifest is built, given outputs and status,
\* and returned.
ReturnManifest ==
    /\ job_pc = "loop"
    /\ pos > Len(data_types)
    /\ manifest' = Put(Put(create_manifest(bbox, dataset_info, validation_results),
                           "outputs", outputs),
                       "status", Status(outputs))
    /\ job_pc' = "returned"
    /\ UNCHANGED <<bbox, data_types, pos, outputs, dataset_info,
                   validation_results, disk, getter_log, stages, year>>
    /\ UNCHANGED <<downloadVars, otherVars>>

NextJob ==
    \/ Geocode
    \/ ProcessDataset
    \/ ReturnManifest

SpecJob == InitJob /\ [][NextJob]_vars

\* The data types for which a getter call returned a file.
Succeeded ==
    {getter_log[k].data_type :
        k \in {m \in 1..Len(getter_log) : getter_log[m].path # "None"}}

\* C10: the returned manifest has status "failed" exactly when no requested
\* dataset succeeded, which is exactly when outputs is empty; otherwise the
\* status is "completed" and outputs holds the final file of exactly the
\* datasets that succeeded.
C10_StatusFromOutputs ==
    job_pc = "returned" =>
        /\ manifest["status"] \in {"completed", "failed"}
        /\ (manifest["status"] = "failed") = (Succeeded = {})
        /\ (manifest["status"] = "failed") = (DOMAIN manifest["outputs"] = {})
        /\ DOMAIN manifest["outputs"] = Succeeded
        /\ Succeeded \subseteq Range(data_types)
        /\ \A d \in DOMAIN manifest["outputs"] :
              manifest["outputs"][d] = FinalFile(d)

\* C10 witness: of two requested datasets one succeeded and one failed, and
\* the manifest is "completed" with the one output.
C10_Witness ==
    /\ job_pc = "returned"
    /\ Len(data_types) = 2
    /\ Len(getter_log) = 2
    /\ Cardinality(Succeeded) = 1
    /\ getter_log[1].data_type # getter_log[2].data_type
    /\ manifest["status"] = "completed"
    /\ Cardinality(DOMAIN manifest["outputs"]) = 1

\* C10 second case: nothing succeeded although final files of an earlier
\* job are on disk, and the manifest is "failed".
C10_WitnessFailed ==
    /\ job_pc = "returned"
    /\ Len(getter_log) = 2
    /\ Succeeded = {}
    /\ disk # {}
    /\ manifest["status"] = "failed"

\* The five dataset identifiers of the interface.
RecognizedIds == {"land_cover", "tree_cover", "ndvi", "population", "basemap"}

IsRecognized(dt) == dt \in RecognizedIds

\* The data types of the getter calls made so far, in call order.
CalledTypes == [k \in 1..Len(getter_log) |-> getter_log[k].data_type]

\* C11: once geocoding has succeeded, the getter calls made are those of
\* the recognized ids of data_types, in request order, whatever the earlier
\* calls returned; every step of the loop moves on to the next id, and the
\* loop ends only by returning the manifest, never by raising.
C11_FailuresContained ==
    /\ [](job_pc = "loop" =>
            CalledTypes = SelectSeq(SubSeq(data_types, 1, pos - 1), IsRecognized))
    /\ [](job_pc = "returned" =>
            /\ CalledTypes = SelectSeq(data_types, IsRecognized)
            /\ manifest # None)
    /\ [][job_pc = "loop" =>
            \/ job_pc' = "loop" /\ pos <= Len(data_types) /\ pos' = pos + 1
            \/ job_pc' = "returned" /\ pos = Len(data_types) + 1]_vars

\* C11 witness: the first of two recognized datasets failed, the second
\* was still attempted and succeeded, and the manifest was returned.
C11_Witness ==
    /\ job_pc = "returned"
    /\ Len(getter_log) = 2
    /\ getter_log[1].path = "None"
    /\ getter_log[2].path # "None"
    /\ getter_log[1].data_type # getter_log[2].data_type
    /\ DOMAIN manifest["outputs"] = {getter_log[2].data_type}

\* The getter calls in which a tile failed its third attempt.
ExhaustedCalls == {k \in 1..Len(getter_log) : getter_log[k].tile_exhausted}

\* C12 as stated: a dataset whose tiled acquisition had a tile fail all
\* three attempts is absent from the manifest's outputs.
C12_AbsentAfterTileFailure ==
    job_pc = "returned" =>
        \A k \in ExhaustedCalls :
            getter_log[k].data_type \notin DOMAIN manifest["outputs"]

\* C12, amended: a getter call of land_cover, tree_cover, ndvi or basemap
\* in which a tile failed all three attempts returns no file; the
\* population getter then returns a file only from its direct fallback; a
\* dataset none of whose calls returned a file is absent from outputs, and
\* every dataset with a call that returned a file is present.
C12_AbsentUnlessFallback ==
    job_pc = "returned" =>
        /\ \A k \in ExhaustedCalls :
              /\ getter_log[k].data_type # "population" =>
                    getter_log[k].path = "None"
              /\ getter_log[k].data_type = "population" =>
                    \/ getter_log[k].path = "None"
                    \/ getter_log[k].route = "direct"
              /\ getter_log[k].data_type \notin Succeeded =>
                    getter_log[k].data_type \notin DOMAIN manifest["outputs"]
        /\ \A k \in 1..Len(getter_log) :
              getter_log[k].path # "None" =>
                  getter_log[k].data_type \in DOMAIN manifest["outputs"]

\* C12 witness: the tiled download of ndvi lost a tile, the basemap
\* pipeline succeeded; outputs holds the basemap only.
C12_Witness ==
    /\ job_pc = "returned"
    /\ Len(getter_log) = 2
    /\ getter_log[1].data_type = "ndvi"
    /\ getter_log[1].tile_exhausted
    /\ getter_log[2].data_type = "basemap"
    /\ ~getter_log[2].tile_exhausted
    /\ DOMAIN manifest["outputs"] = {"basemap"}

\* C12: the population dataset is in outputs although a tile of its tiled
\* download failed all three attempts.
C12_PopulationViaFallback ==
    ~(/\ job_pc = "returned"
      /\ Len(getter_log) = 1
      /\ getter_log[1].data_type = "population"
      /\ getter_log[1].tile_exhausted
      /\ "population" \in DOMAIN manifest["outputs"])

\* Longitude and latitude x, y (in 1/DegDen degrees) lie in the
\* continental-USA bounds: lon in [-130, -60], lat in [24, 50].
PointInBounds(x, y) ==
    /\ -130 * DegDen <= x /\ x <= -60 * DegDen
    /\ 24 * DegDen <= y /\ y <= 50 * DegDen

\* The whole bounding box lies within the continental-USA bounds.
BoxWithinBounds(bb) ==
    PointInBounds(bb.min_lon, bb.min_lat) /\ PointInBounds(bb.max_lon, bb.max_lat)

\* The getter calls for the two NLCD datasets.
NlcdCalls ==
    {k \in 1..Len(getter_log) :
        getter_log[k].data_type \in {"land_cover", "tree_cover"}}

\* A getter call was skipped: it made no remote fetch and returned no file.
Skipped(call) ==
    /\ call.route = "skipped"
    /\ call.path = "None"
    /\ ~call.tile_exhausted

\* C14 as stated: for a bounding box that is not within the bounds, every
\* land_cover or tree_cover request is skipped.
C14_SkippedWhenNotWithin ==
    (job_pc \in {"loop", "returned"} /\ ~BoxWithinBounds(bbox)) =>
        \A k \in NlcdCalls : Skipped(getter_log[k])

\* C14, amended: for a bounding box whose south-west corner
\* (min_lon, min_lat) is outside the bounds, every land_cover or tree_cover
\* request is skipped without a remote fetch and is absent from outputs; no
\* error is raised, and the other requested datasets are still called.
C14_SkippedWhenCornerOutside ==
    (job_pc \in {"loop", "returned"}
        /\ ~PointInBounds(bbox.min_lon, bbox.min_lat)) =>
        /\ \A k \in NlcdCalls : Skipped(getter_log[k])
        /\ DOMAIN outputs \cap {"land_cover", "tree_cover"} = {}
        /\ job_pc = "returned" =>
              /\ DOMAIN manifest["outputs"] \cap {"land_cover", "tree_cover"} = {}
              /\ CalledTypes = SelectSeq(data_types, IsRecognized)

\* C14 witness: at a location outside the bounds land_cover was skipped and
\* ndvi, requested after it, is in outputs.
C14_Witness ==
    /\ job_pc = "returned"
    /\ ~PointInBounds(bbox.min_lon, bbox.min_lat)
    /\ data_types = <<"land_cover", "ndvi">>
    /\ Skipped(getter_log[1])
    /\ DOMAIN manifest["outputs"] = {"ndvi"}

\* C14: with only the north-east corner outside the bounds, land_cover was
\* fetched and is in outputs.
C14_StraddlingBoxFetched ==
    ~(/\ job_pc = "returned"
      /\ ~BoxWithinBounds(bbox)
      /\ "land_cover" \in DOMAIN manifest["outputs"])

---------------------------------------------------------------------------
(* DataValidator.validate_raster. *)

\* The files validate_raster may be pointed at: no file, a file that is no
\* raster, or a raster with its CRS ("None" when it has none), its nodata
\* value (<<>> for None, else <<value>>), the pixels of band 1, and whether
\* reading the band succeeds.
RasterFiles ==
    {[kind |-> "missing"], [kind |-> "corrupt"]}
    \cup [kind : {"raster"},
          crs : {"EPSG:5070", "EPSG:4326", "None"},
          nodata : {<<>>, <<0>>, <<255>>},
          data : {<<>>, <<0, 0>>, <<0, 255>>, <<3, 7>>},
          readable : BOOLEAN]

\* The expected_crs arguments: None, the target CRS, another CRS.
ExpectedCrs == {"None", "EPSG:5070", "EPSG:4326"}

\* min and max of a non-empty sequence of numbers.
SeqMin(s) == CHOOSE v \in Range(s) : \A w \in Range(s) : v <= w
SeqMax(s) == CHOOSE v \in Range(s) : \A w \in Range(s) : v >= w

\* Python truth of a nodata value: None and 0 are false.
Truthy(nodata) == nodata # <<>> /\ nodata[1] # 0

\* Mutant of validate_raster: a file that cannot be opened gives a record
\* without an error string.
validate_raster_without_error(f, expected) ==
    IF f.kind # "raster" THEN [file_exists |-> FALSE]
    ELSE [file_exists |-> TRUE, crs |-> f.crs, crs_match |-> TRUE]

\* validation.py:9-39.
validate_raster(f, expected) ==
    IF f.kind = "missing"
    THEN \* 12 raises, 35-39
         [file_exists |-> FALSE, error |-> "No such file or directory"]
    ELSE IF f.kind = "corrupt"
    THEN [file_exists |-> FALSE, error |-> "not recognized as a supported file format"]
    ELSE IF ~f.readable
    THEN \* 26 raises, 35-39
         [file_exists |-> FALSE, error |-> "Read failed"]
    ELSE IF f.data = <<>>
    THEN \* 28: np.nanmin of an empty array raises, 35-39
         [file_exists |-> FALSE, error |-> "zero-size array to reduction operation"]
    ELSE [file_exists |-> TRUE,
          crs |-> f.crs,
          crs_match |-> IF expected = "None" THEN TRUE ELSE f.crs = expected,
          nodata |-> f.nodata,
          min_value |-> SeqMin(f.data),
          max_value |-> SeqMax(f.data),
          has_nodata |-> IF Truthy(f.nodata)
                         THEN \E k \in 1..Len(f.data) : f.data[k] = f.nodata[1]
                         ELSE FALSE]

\* No download is running.
NoDownload ==
    /\ region = None
    /\ scale = 0
    /\ pc = "idle"
    /\ trail = <<>>
    /\ tiled_by = "none"
    /\ result = "pending"
    /\ file = NoFile
    /\ full_width = 0
    /\ full_height = 0
    /\ n_tiles_x = 0
    /\ n_tiles_y = 0
    /\ full_data = <<>>
    /\ completed = 0
    /\ i = 0
    /\ j = 0
    /\ attempt = 0
    /\ tile_answer = "none"
    /\ direct_answer = "none"

InitValidate ==
    /\ NoDownload
    /\ NoJob
    /\ client = "waiting"
    /\ job_id = "job_1"
    /\ recorded = {}
    /\ raster \in RasterFiles
    /\ expected_crs \in ExpectedCrs
    /\ validation_result = None
    /\ reprojected = None

\* One call of validate_raster(file_path, expected_crs).
ValidateRaster ==
    /\ validation_result = None
    /\ validation_result' = validate_raster(raster, expected_crs)
    /\ UNCHANGED <<downloadVars, jobVars, client, job_id, recorded, raster,
                   expected_crs, reprojected>>

\* spatial_processing.py:19-20, data_agent.py:44.
target_crs == "EPSG:5070"

\* spatial_processing.py:101: src.nodata or 255.
NodataOr255(nodata) == IF Truthy(nodata) THEN nodata ELSE <<255>>

\* spatial_processing.py:86-118: the raster reproject_raster writes at
\* output_path for the raster f: the metadata of f with the target CRS
\* and the nodata value of line 101.  The transform, the size and the
\* warped pixel values are not followed.
reproject_raster(f) ==
    [kind |-> "raster", crs |-> target_crs, nodata |-> NodataOr255(f.nodata)]

\* One call of reproject_raster(input_path, output_path): it returns True
\* with the output written, or False when opening the input, computing the
\* transform (a source without CRS) or the warp raises (120-122).
ReprojectRaster ==
    /\ reprojected = None
    /\ \/ /\ raster.kind = "raster"
          /\ raster.readable
          /\ raster.crs # "None"
          /\ reprojected' = [returned |-> TRUE, output |-> reproject_raster(raster)]
       \/ reprojected' = [returned |-> FALSE]
    /\ UNCHANGED <<downloadVars, jobVars, client, job_id, recorded, raster,
                   expected_crs, validation_result>>

NextValidate ==
    \/ ValidateRaster
    \/ ReprojectRaster

SpecValidate == InitValidate /\ [][NextValidate]_vars

\* Opening or decoding the file fails.
Unreadable(f) == f.kind # "raster" \/ ~f.readable \/ f.data = <<>>

\* C15: every call of validate_raster returns a record; for a file that is
\* missing or cannot be read it has file_exists = false and a non-empty
\* error string, and otherwise file_exists = true and a crs_match field.
C15_ValidateFailsSoft ==
    validation_result # None =>
        /\ "file_exists" \in DOMAIN validation_result
        /\ validation_result.file_exists \in BOOLEAN
        /\ validation_result.file_exists = ~Unreadable(raster)
        /\ ~validation_result.file_exists =>
              /\ "error" \in DOMAIN validation_result
              /\ validation_result.error # ""
        /\ validation_result.file_exists =>
              /\ "crs_match" \in DOMAIN validation_result
              /\ validation_result.crs_match \in BOOLEAN

\* C15 witness: a missing file was validated.
C15_Witness ==
    /\ raster.kind = "missing"
    /\ validation_result # None
    /\ ~validation_result.file_exists
    /\ validation_result.error # ""

\* What process_city_data reads of the validation of a file that exists
\* is in Validations.
ValidationsAsModelled ==
    (validation_result # None /\ raster.kind # "missing") =>
        (IF validation_result.file_exists
         THEN [file_exists |-> TRUE, crs_match |-> validation_result.crs_match]
         ELSE [file_exists |-> FALSE, error |-> validation_result.error])
            \in Validations

\* The logical AND of the crs_match values of a dict of validation
\* records, a record without crs_match counting as false.
AllCrsMatch(validations) ==
    \A d \in DOMAIN validations :
        "crs_match" \in DOMAIN validations[d] /\ validations[d].crs_match = TRUE

\* C16: the manifest carries the datasets, validation results and bounding
\* box it was given; its success flag is the AND of the crs_match values of
\* validation_results, a record without crs_match counting as false; and
\* building it changes none of them.
C16_SuccessIsAndOfCrsMatch ==
    /\ [](job_pc = "returned" =>
            /\ manifest["processing_parameters"].success
                   = AllCrsMatch(validation_results)
            /\ manifest["datasets"] = dataset_info
            /\ manifest["validation"] = validation_results
            /\ manifest["aoi_bbox"] = bbox)
    /\ [][job_pc' = "returned" =>
            /\ dataset_info' = dataset_info
            /\ validation_results' = validation_results
            /\ bbox' = bbox]_vars

\* C16 witness: of two validated datasets one matched the CRS and one
\* validation failed soft; success is false.
C16_Witness ==
    /\ job_pc = "returned"
    /\ Cardinality(DOMAIN validation_results) = 2
    /\ \E d \in DOMAIN validation_results :
          ~validation_results[d].file_exists
    /\ \E d \in DOMAIN validation_results :
          /\ validation_results[d].file_exists
          /\ validation_results[d].crs_match
    /\ manifest["processing_parameters"].success = FALSE

\* C17: when the geocoder returns no bounding box, process_city_data has
\* raised: no getter was called, no raster file was written, no manifest
\* was built, and nothing happens afterwards.
C17_NoBoxNoJob ==
    /\ []((job_pc # "geocode" /\ bbox = None) =>
            /\ job_pc = "raised"
            /\ getter_log = <<>>
            /\ DOMAIN outputs = {}
            /\ manifest = None
            /\ file = NoFile)
    /\ [][(job_pc = "geocode" /\ bbox' = None) => disk' = disk]_vars
    /\ [][job_pc = "raised" => FALSE]_vars

\* C17 witness: a job with two requested datasets has raised at the
\* geocoding step.
C17_Witness ==
    /\ job_pc = "raised"
    /\ bbox = None
    /\ Len(data_types) = 2
    /\ getter_log = <<>>
    /\ manifest = None

---------------------------------------------------------------------------
(* Two successive jobs of the same server (main.py: fetch_data). *)

\* The data_types lists followed for each of the two jobs.
SingleRequests == {<<dt>> : dt \in RequestableTypes}

InitJobs ==
    /\ NoDownload
    /\ NoOther
    /\ job_pc = "geocode"
    /\ bbox = None
    /\ data_types \in SingleRequests
    /\ pos = 1
    /\ outputs = EmptyDict
    /\ dataset_info = EmptyDict
    /\ validation_results = EmptyDict
    /\ manifest = None
    /\ disk = {}
    /\ getter_log = <<>>
    /\ stages = <<>>
    /\ year = DefaultYear

\* The raster paths in the outputs of a returned manifest.
OutputPaths(m) ==
    IF m = None THEN {} ELSE {m["outputs"][d] : d \in DOMAIN m["outputs"]}

\* main.py:69-79: the endpoint is called again after a job has ended, and
\* process_city_data starts with a new job id (data_agent.py:618) and the
\* same outputs/ and temp/ directories.
FetchDataAgain ==
    /\ job_pc \in {"returned", "raised"}
    /\ job_id = "job_1"
    /\ job_id' = "job_2"
    /\ recorded' = recorded \cup OutputPaths(manifest)
    /\ job_pc' = "geocode"
    /\ bbox' = None
    /\ data_types' \in SingleRequests
    /\ pos' = 1
    /\ outputs' = EmptyDict
    /\ dataset_info' = EmptyDict
    /\ validation_results' = EmptyDict
    /\ manifest' = None
    /\ getter_log' = <<>>
    /\ stages' = <<>>
    /\ UNCHANGED <<disk, year, downloadVars, client, raster, expected_crs,
                   validation_result, reprojected>>

NextJobs ==
    \/ Geocode
    \/ ProcessDataset
    \/ ReturnManifest
    \/ FetchDataAgain

SpecJobs == InitJobs /\ [][NextJobs]_vars

\* C18: no job writes a raster path that the manifest of another job
\* records in its outputs.
C18_RasterPathsUniquePerJob ==
    \A k \in 1..Len(getter_log) :
        getter_log[k].path # "None" => getter_log[k].path \notin recorded

\* C18: the raster paths depend on the dataset only: whatever the job, a
\* dataset's raster is written to the same path under outputs/.
C18_PathsPerDatasetOnly ==
    /\ \A k \in 1..Len(getter_log) :
          getter_log[k].path \in {"None", FinalFile(getter_log[k].data_type)}
    /\ recorded \subseteq {FinalFile(dt) : dt \in RecognizedIds}

---------------------------------------------------------------------------
(* The download with the client's request-level timeout                    *)
(* (streamlit_app.py: requests.post(..., timeout=1800)).                   *)

\* streamlit_app.py:92-98 and 148-152: the timeout of the client's
\* requests.post fires while the server is still working; the client stops
\* waiting, and nothing is sent to the server.
RequestTimeout ==
    /\ client = "waiting"
    /\ pc # "done"
    /\ client' = "timed_out"
    /\ UNCHANGED <<downloadVars, jobVars, job_id, recorded, raster,
                   expected_crs, validation_result, reprojected>>

NextTimeout ==
    \/ DirectDownload
    \/ NumpyPlan
    \/ SingleWindow
    \/ TiledSetup
    \/ TileFetched
    \/ TileError
    \/ SaveRaster
    \/ RequestTimeout

SpecTimeout == Init /\ [][NextTimeout]_vars

\* C19: once the request-level timeout has fired during the tiled
\* download, no further tile is fetched and no raster is written.
C19_TimeoutAbortsTiling ==
    [][(client = "timed_out" /\ pc \in {"tile", "save"}) =>
            /\ completed' = completed
            /\ full_data' = full_data
            /\ file' = file]_vars

\* C19: the timeout changes nothing on the server, whose steps do not
\* read it.
C19_TimeoutIsClientSide ==
    [][client' # client => UNCHANGED <<downloadVars, jobVars>>]_vars

\* C19: the raster of a tiled download of two tile rows was written
\* although the timeout had fired before the download returned.
C19_WrittenAfterTimeout ==
    ~(client = "timed_out" /\ pc = "done" /\ file.via = "tiled"
        /\ n_tiles_y = 2 /\ completed = total_tiles)

---------------------------------------------------------------------------
(* The acquisition plan of city-sized regions. *)

\* {min_lon: -87.94, min_lat: 41.64, max_lon: -87.52, max_lat: 42.03} at
\* scale 30.
ChicagoRequest == <<-879400, 416400, -875200, 420300, 30>>

\* Rectangles from the same south-west corner, 0.1348, 0.42 or 0.6 degrees
\* wide and 0.1348, 0.39 or 0.5 degrees high, at scales 30 and 100.
PlanRequests ==
    {<<-879400, 416400, -879400 + dx, 416400 + dy, sc>> :
        dx \in {1348, 4200, 6000}, dy \in {1348, 3900, 5000}, sc \in {30, 100}}

InitPlan ==
    /\ \E rq \in PlanRequests :
          /\ region = [x1 |-> rq[1], y1 |-> rq[2], x2 |-> rq[3], y2 |-> rq[4]]
          /\ scale = rq[5]
    /\ pc = "direct"
    /\ trail = <<"direct">>
    /\ tiled_by = "none"
    /\ result = "pending"
    /\ file = NoFile
    /\ full_width = 0
    /\ full_height = 0
    /\ n_tiles_x = 0
    /\ n_tiles_y = 0
    /\ full_data = <<>>
    /\ completed = 0
    /\ i = 0
    /\ j = 0
    /\ attempt = 0
    /\ tile_answer = "none"
    /\ direct_answer = "none"
    /\ NoJob
    /\ NoOther

\* The calls up to the tile grid: the tile loop is not followed.
NextPlan ==
    \/ DirectDownload
    \/ NumpyPlan
    \/ SingleWindow
    \/ TiledSetup

SpecPlan == InitPlan /\ [][NextPlan]_vars

\* The request is the Chicago bounding box at scale 30.
IsChicago ==
    /\ region = [x1 |-> ChicagoRequest[1], y1 |-> ChicagoRequest[2],
                 x2 |-> ChicagoRequest[3], y2 |-> ChicagoRequest[4]]
    /\ scale = ChicagoRequest[5]

\* C20 as stated: the pixel count of the Chicago bounding box at scale 30
\* is under the tiling ceiling and the region is not tiled.
C20_ChicagoIsDirect ==
    (IsChicago /\ pc # "direct") =>
        /\ total_pixels <= 250000
        /\ "tiled" \notin Range(trail)

\* C20, amended: the Chicago bounding box at scale 30 is 1558 x 1447 =
\* 2254426 pixels, above the ceiling of 250000; the array-based path never
\* sends it as a single request, and the tiled download splits it into
\* 4 x 4 tiles.
C20_ChicagoIsTiled ==
    IsChicago =>
        /\ width = 1558 /\ height = 1447
        /\ total_pixels = 2254426
        /\ total_pixels > 250000
        /\ "single" \notin Range(trail)
        /\ ("numpy" \in Range(trail) /\ pc \notin {"numpy", "done"}) =>
              "tiled" \in Range(trail)
        /\ pc = "tile" =>
              /\ full_width = 1558 /\ full_height = 1447
              /\ n_tiles_x = 4 /\ n_tiles_y = 4

\* C20 witness: the Chicago region has reached the tile loop with 16 tiles.
C20_Witness ==
    /\ IsChicago
    /\ pc = "tile"
    /\ tiled_by = "sample_limit"
    /\ total_tiles = 16

---------------------------------------------------------------------------
(* Regions whose pixel width or height is zero. *)

\* The computed pixel width or height of the region is not positive
\* (data_agent.py:114-115, 184-185).
DegenerateDims == width <= 0 \/ height <= 0

\* C21 as stated: when the computed pixel width or height of the region is
\* zero or negative, no tile plan is produced, no sampleRectangle is issued
\* and no raster is written by the array-based paths.
C21_InvalidRegionRejected ==
    DegenerateDims =>
        /\ pc \notin {"single", "tile", "save"}
        /\ file.via \notin {"single", "tiled"}

\* What the code does with such a region: width * height = 0 is under the
\* sample limit, so the region goes to a single sampleRectangle whose array
\* is written with the shape the service returned; when a size error sends
\* it to _download_tiled, the tile grid is empty, no tile is fetched and
\* the save fails, returning False.
C21_DegenerateIsSampledWhole ==
    DegenerateDims =>
        /\ tiled_by # "sample_limit"
        /\ PlanReady => (n_tiles_x = 0 \/ n_tiles_y = 0) /\ pc = "save"
        /\ file.via # "tiled"
        /\ completed = 0
        /\ (pc = "done" /\ "tiled" \in Range(trail)) => result = "False"

\* A raster written from a region of pixel width or height zero.
C21_DegenerateWritten ==
    /\ DegenerateDims
    /\ pc = "done" /\ result = "True"
    /\ file.via = "single"

---------------------------------------------------------------------------
(* The nodata value through reproject_raster and validate_raster. *)

\* reproject_raster returned True for the raster.
Reprojected == reprojected # None /\ reprojected.returned

\* C22 as stated: the reprojected raster has nodata 255 only when the
\* source defines no nodata value; when the source defines one, the value
\* 0 of the download paths included, the reprojected raster keeps it.
C22_NodataKept ==
    Reprojected =>
        reprojected.output.nodata =
            (IF raster.nodata = <<>> THEN <<255>> ELSE raster.nodata)

\* What the code does: a source nodata value other than 0 is kept, and a
\* source without nodata value or with the nodata value 0 gives 255.
C22_ZeroNodataBecomes255 ==
    Reprojected =>
        /\ reprojected.output.crs = target_crs
        /\ reprojected.output.nodata =
              (IF raster.nodata \in {<<>>, <<0>>} THEN <<255>> ELSE raster.nodata)

\* A raster with nodata 0 was reprojected.
C22_ZeroNodataReprojected ==
    /\ Reprojected
    /\ raster.nodata = <<0>>
    /\ reprojected.output.nodata = <<255>>

\* C23 as stated: has_nodata is true exactly when the raster defines a
\* nodata value and at least one pixel of band 1 equals it, for every
\* nodata value including 0.
C23_HasNodataExact ==
    (validation_result # None /\ validation_result.file_exists) =>
        (validation_result.has_nodata <=>
            /\ raster.nodata # <<>>
            /\ \E k \in 1..Len(raster.data) : raster.data[k] = raster.nodata[1])

\* What the code does: has_nodata is true exactly when the raster defines
\* a nodata value other than 0 and at least one pixel of band 1 equals it;
\* with the nodata value 0 it is false whatever the pixels.
C23_HasNodataExceptZero ==
    (validation_result # None /\ validation_result.file_exists) =>
        (validation_result.has_nodata <=>
            /\ raster.nodata \notin {<<>>, <<0>>}
            /\ \E k \in 1..Len(raster.data) : raster.data[k] = raster.nodata[1])

\* A raster with nodata 0 and a pixel 0 was validated.
C23_ZeroNodataValidated ==
    /\ validation_result # None
    /\ validation_result.file_exists
    /\ raster.nodata = <<0>>
    /\ \E k \in 1..Len(raster.data) : raster.data[k] = 0
    /\ ~validation_result.has_nodata

---------------------------------------------------------------------------
(* Rasters that exist and cannot be read by the validator. *)

\* The datasets whose final raster could not be read by validate_raster.
SoftFailures == {d \in DOMAIN validation_results : ~validation_results[d].file_exists}

\* C24: when a dataset's final raster exists but cannot be read by the
\* validator, the failure is recorded and not raised: the record with
\* file_exists = false and an error string is kept for the dataset, whose
\* raster stays in outputs; the loop goes on to the remaining datasets, the
\* function returns (it raises only when geocoding fails), and the returned
\* manifest holds the record in its validation map and has success = false.
C24_SoftFailureRecorded ==
    /\ \A d \in SoftFailures :
          /\ "error" \in DOMAIN validation_results[d]
          /\ validation_results[d].error # ""
          /\ d \in DOMAIN outputs
          /\ outputs[d] \in disk
          /\ ~dataset_info[d].validation.crs_match
    /\ job_pc = "raised" => bbox = None /\ getter_log = <<>>
    /\ (job_pc = "loop" /\ SoftFailures # {}) =>
          CalledTypes = SelectSeq(SubSeq(data_types, 1, pos - 1), IsRecognized)
    /\ job_pc = "returned" =>
          /\ CalledTypes = SelectSeq(data_types, IsRecognized)
          /\ manifest["validation"] = validation_results
          /\ SoftFailures # {} => ~manifest["processing_parameters"].success

\* C24 witness: the raster of the first of two datasets could not be read,
\* the second dataset was processed and validated, and the manifest was
\* returned with both records and success = false.
C24_Witness ==
    /\ job_pc = "returned"
    /\ Len(getter_log) = 2
    /\ getter_log[1].data_type # getter_log[2].data_type
    /\ SoftFailures = {getter_log[1].data_type}
    /\ DOMAIN manifest["validation"] =
           {getter_log[1].data_type, getter_log[2].data_type}
    /\ manifest["validation"][getter_log[2].data_type].file_exists
    /\ ~manifest["processing_parameters"].success
    /\ manifest["status"] = "completed"

---------------------------------------------------------------------------
(* Tile arrays of another shape than expected. *)

\* C25: in the tiled download, a fetch that returns an array whose shape
\* differs from (tile_height, tile_width) places the array, resized to that
\* shape, into the window of the tile in that same step: the tile counts as
\* completed, the attempt counter does not advance, the loop moves to the
\* next tile or to the save, and the download does not fail.
C25_MismatchResizedAndPlaced ==
    [][(pc = "tile" /\ tile_answer' = "mismatch") =>
          /\ completed' = completed + 1
          /\ attempt' = 0
          /\ result' = result
          /\ pc' \in {"tile", "save"}
          /\ pc' = "tile" => <<i', j'>> # <<i, j>>
          /\ Len(full_data') = Len(full_data) + 1
          /\ SubSeq(full_data', 1, Len(full_data)) = full_data
          /\ LET placed == full_data'[Len(full_data')]
             IN  /\ placed.y1 - placed.y0 = tile_height(i)
                 /\ placed.x1 - placed.x0 = tile_width(j)
                 /\ placed.y0 = y_start(i) /\ placed.x0 = x_start(j)
                 /\ placed.val = TileValue(i, j)]_vars

\* C25 witness: the fetch of the first tile returned an array of another
\* shape, the tile was completed by it and the loop is at the next tile.
C25_Witness ==
    /\ pc = "tile"
    /\ tile_answer = "mismatch"
    /\ completed = 1
    /\ attempt = 0
    /\ <<i, j>> # <<0, 0>>

---------------------------------------------------------------------------
(* Termination of download_geotiff_from_ee. *)

\* The call runs on: every remote call answers or raises, and the code
\* goes on with its next statement.
SpecLive == Init /\ [][Next]_vars /\ WF_vars(Next)

\* The order of the positions of the call chain.
Rank(p) ==
    CASE p = "direct" -> 0
      [] p = "numpy" -> 1
      [] p = "single" -> 2
      [] p = "tiled" -> 3
      [] p = "tile" -> 4
      [] p = "save" -> 5
      [] p = "done" -> 6

\* The strategies in the order of the escalation.
StrategyRank(s) ==
    CASE s = "direct" -> 0
      [] s = "numpy" -> 1
      [] s = "single" -> 2
      [] s = "tiled" -> 3

\* An upper bound of the tile fetch attempts made so far in the tiled
\* pass: three for each completed tile and those at the current tile.
AttemptsSoFar == MAX_ATTEMPTS * completed + attempt

\* C26: every call of download_geotiff_from_ee ends with a value; the
\* strategies are entered in the order direct, array-based plan, single
\* window, tiled, each at most once and never an earlier one after a
\* later one; every fetch attempt of the tiled pass advances the count of
\* attempts, which stays below 3 * n_tiles_x * n_tiles_y while a fetch is
\* still to be made.
C26_TerminatesForwardOnly ==
    /\ <>(pc = "done")
    /\ [](pc = "done" => result \in {"True", "False", "None"})
    /\ [](/\ trail[1] = "direct"
          /\ \A a, b \in 1..Len(trail) :
                a < b => StrategyRank(trail[a]) < StrategyRank(trail[b]))
    /\ [][/\ Rank(pc') >= Rank(pc)
          /\ pc \in {"direct", "numpy", "single", "tiled", "save"} =>
                Rank(pc') > Rank(pc)]_vars
    /\ [](pc = "tile" => AttemptsSoFar < MAX_ATTEMPTS * n_tiles_x * n_tiles_y)
    /\ [][pc = "tile" =>
            \/ pc' = "tile" /\ AttemptsSoFar' > AttemptsSoFar
            \/ pc' = "save" /\ completed' = n_tiles_x * n_tiles_y
            \/ pc' = "done" /\ result' = "False"]_vars

\* C26 witness: the call has gone through all four strategies and has
\* returned from a tiled pass in which, after a completed tile, a tile
\* failed its third attempt.
C26_Witness ==
    /\ pc = "done"
    /\ trail = <<"direct", "numpy", "single", "tiled">>
    /\ completed >= 1
    /\ attempt = 2

---------------------------------------------------------------------------
(* The steps behind a raster in outputs. *)

\* The latest getter call returned a file.
LatestReturnedFile ==
    getter_log # <<>> /\ getter_log[Len(getter_log)].path # "None"

IsPipelineStep(s) == s.stage \in {"fetch", "clip", "reproject"}

\* Every path in outputs is the one a getter call of this job returned for
\* that dataset.
OutputsFromThisJob ==
    \A d \in DOMAIN outputs :
        \E k \in 1..Len(getter_log) :
            getter_log[k].data_type = d /\ getter_log[k].path = outputs[d]

\* Fetch, clip and reprojection ran once each, in that order, each with
\* success, and no step of the call failed.
FullPipeline(st) ==
    /\ \A k \in 1..Len(st) : st[k].ok
    /\ SelectSeq(st, IsPipelineStep) =
           <<Step("fetch", TRUE), Step("clip", TRUE), Step("reproject", TRUE)>>

\* The steps of the population fallback: the Earth Engine steps ended
\* with a failure of the image construction, the fetch or the rename, and
\* were followed by the streamed read, the reprojection and the rename,
\* each with success and without a clip.
FallbackPipeline(st) ==
    \E n \in 1..Len(st) :
        /\ ~st[n].ok
        /\ st[n].stage \in {"prepare", "fetch", "rename"}
        /\ \A k \in 1..(n - 1) : st[k].ok
        /\ SubSeq(st, n + 1, Len(st)) =
               <<Step("stream", TRUE), Step("reproject", TRUE),
                 Step("rename", TRUE)>>

C27_PopulationAfterFailedFetch ==
    /\ LatestReturnedFile
    /\ getter_log[Len(getter_log)].data_type = "population"
    /\ Step("fetch", FALSE) \in Range(stages)
    /\ "population" \in DOMAIN outputs

---------------------------------------------------------------------------
(* The keys of the manifest's maps. *)

\* C28: in every returned manifest the key sets of outputs, datasets and
\* validation are equal; every key is a recognized dataset identifier that
\* occurs in data_types; an unrecognized identifier of data_types is a key
\* of none of the three, and the getter calls made are those of the
\* recognized identifiers of data_types, in request order, as if the
\* unrecognized ones were not there.
C28_SameKeysAllRecognized ==
    /\ DOMAIN outputs = DOMAIN dataset_info
    /\ DOMAIN outputs = DOMAIN validation_results
    /\ job_pc = "returned" =>
          /\ DOMAIN manifest["outputs"] = DOMAIN manifest["datasets"]
          /\ DOMAIN manifest["outputs"] = DOMAIN manifest["validation"]
          /\ DOMAIN manifest["outputs"] \subseteq RecognizedIds \cap Range(data_types)
          /\ \A d \in Range(data_types) \ RecognizedIds :
                /\ d \notin DOMAIN manifest["outputs"]
                /\ d \notin DOMAIN manifest["datasets"]
                /\ d \notin DOMAIN manifest["validation"]
          /\ CalledTypes = SelectSeq(data_types, IsRecognized)
          /\ DOMAIN manifest["outputs"] = Succeeded

\* C28 witness: an unrecognized identifier was requested before a
\* recognized one, whose raster is the only key of the three maps.
C28_Witness ==
    /\ job_pc = "returned"
    /\ Len(data_types) = 2
    /\ data_types[1] \notin RecognizedIds
    /\ data_types[2] \in RecognizedIds
    /\ DOMAIN manifest["outputs"] = {data_types[2]}
    /\ DOMAIN manifest["validation"] = {data_types[2]}
    /\ DOMAIN manifest["datasets"] = {data_types[2]}

---------------------------------------------------------------------------
(* success and status of a manifest. *)

\* C29 as stated: in every returned manifest success = true implies
\* status = "completed"; a job in which no dataset succeeded never has
\* success = true.
C29_SuccessImpliesCompleted ==
    job_pc = "returned" =>
        (manifest["processing_parameters"].success =>
            manifest["status"] = "completed")

\* What the code does: success is the AND over the validation records, so
\* a manifest without any record has success = true, and it is exactly
\* then that its status is "failed".
C29_FailedJobReportsSuccess ==
    job_pc = "returned" =>
        /\ manifest["status"] = "failed" <=> DOMAIN manifest["validation"] = {}
        /\ manifest["status"] = "failed" =>
              manifest["processing_parameters"].success

\* A job whose only dataset failed has returned a manifest with status
\* "failed" and success = true.
C29_FailedWithSuccess ==
    /\ job_pc = "returned"
    /\ Len(data_types) = 1
    /\ Len(getter_log) = 1
    /\ getter_log[1].path = "None"
    /\ manifest["status"] = "failed"
    /\ manifest["processing_parameters"].success

---------------------------------------------------------------------------
(* The year recorded for a dataset. *)

\* The year arguments followed: below and above the WorldPop range
\* 2000-2020 and the tree-cover range 2011-2023, and inside them.
Years == {1999, 2010, 2019, 2020, 2021, 2024}

\* A job for one dataset and any of the years.
InitYear ==
    /\ NoDownload
    /\ NoOther
    /\ job_pc = "geocode"
    /\ bbox = None
    /\ data_types \in SingleRequests
    /\ pos = 1
    /\ outputs = EmptyDict
    /\ dataset_info = EmptyDict
    /\ validation_results = EmptyDict
    /\ manifest = None
    /\ disk = {}
    /\ getter_log = <<>>
    /\ stages = <<>>
    /\ year \in Years

SpecYear == InitYear /\ [][NextJob]_vars

\* The year of the source data requested by the call that produced the
\* raster of dataset d.
YearRequestedFor(d) ==
    LET k == CHOOSE m \in 1..Len(getter_log) :
                 getter_log[m].data_type = d /\ getter_log[m].path # "None"
    IN  getter_log[k].requested_year

\* C30 as stated: for every dataset in a manifest's datasets map, the
\* recorded year equals the year of the source data requested from the
\* remote service for that dataset, also when a substitute year is used.
C30_RecordedYearIsRequested ==
    job_pc = "returned" =>
        \A d \in DOMAIN manifest["datasets"] :
            manifest["datasets"][d].year = YearRequestedFor(d)

\* What the code does: the recorded year is the year argument of the job,
\* whatever year the getter requested; the two agree for NDVI and the
\* basemap, for tree cover within 2011-2023, for population within
\* 2000-2020, and for land cover only when the argument is 2019.
C30_RecordedYearIsArgument ==
    job_pc = "returned" =>
        \A d \in DOMAIN manifest["datasets"] :
            /\ manifest["datasets"][d].year = year
            /\ (year = YearRequestedFor(d)) <=>
                  \/ d \in {"ndvi", "basemap"}
                  \/ d = "tree_cover" /\ 2011 <= year /\ year <= 2023
                  \/ d = "population" /\ 2000 <= year /\ year <= 2020
                  \/ d = "land_cover" /\ year = 2019

\* The manifest of a job for tree cover and the year 2024 records 2024,
\* and the data requested were those of 2021.
C30_SubstituteYearNotRecorded ==
    /\ job_pc = "returned"
    /\ year = 2024
    /\ "tree_cover" \in DOMAIN manifest["datasets"]
    /\ manifest["datasets"]["tree_cover"].year = 2024
    /\ YearRequestedFor("tree_cover") = 2021

====
